---- MODULE Spec2Model ----
(***************************************************************************)
(* Model of the versioned file repository of kodiproxy-rust:               *)
(*   files/src/db.rs        FilesDB (tables FILES and FILES_HISTORY)        *)
(*   files/src/handlers.rs  the HTTP handlers in front of it                *)
(*   files/src/lib.rs       header parsing                                  *)
(*   router/src/router.rs   the mapping of errors to HTTP statuses          *)
(***************************************************************************)
EXTENDS Integers, Sequences, FiniteSets, TLC

(***************************************************************************)
(* Bounds of the model.                                                    *)
(***************************************************************************)
\* FILES_HISTORY gets at most MaxRows rows.
MaxRows == 5
\* FILES_HISTORY gets at most MaxFaultRows rows in the runs with storage faults.
MaxFaultRows == 3
\* Number of HTTP requests of one run of the server.
NReqs == 2
\* FILES_HISTORY gets at most MaxReadRows rows in the runs that read it back.
MaxReadRows == 4
\* Number of HTTP requests of one run of the server with all its handlers.
NServe == 2
\* The instants (in half seconds) the clock runs through in the timed runs.
MaxClock == 2
\* FILES_HISTORY gets at most MaxClockRows rows in the timed runs.
MaxClockRows == 3
\* Number of handlers registered with a Router.
MaxHandlers == 3
\* Number of requests a server accepts in one run.
MaxConns == 3
\* Number of entries of a log given to compare_logs.
MaxLogLen == 2
\* Number of entries of a log of any entries given to compare_logs.
MaxAnyLogLen == 2
\* Number of entries of the longer and of the shorter log of a comparison
\* of a long log with a short one.
MaxLongLogLen == 3
MaxShortLogLen == 1
\* Number of entries the server appends to a log the cache already has.
MaxAppended == 1
\* Number of rows of FILES_HISTORY when calls follow one another in time.
MaxMoveRows == 7
\* Number of rows of FILES_HISTORY when three identities are used.
MaxFrameRows == 4

(***************************************************************************)
(* Values.                                                                 *)
(***************************************************************************)
\* Option<T>: None is the empty tuple, Some(v) the 1-tuple.
None == <<>>
Some(v) == <<v>>

\* SQL NULL in a nullable text/blob column.
Null == "NULL"

\* File identities (PATH, NAME) used by the runs.
IDs == {<<"p", "a">>, <<"p", "b">>}

\* File contents.
Data == {"d1", "d2"}

\* The peer address the tests use.
Address == "127.0.0.1"

VARIABLES
    files,      \* table FILES: a function from (PATH, NAME), its primary key, to the row
    history,    \* table FILES_HISTORY: a set of rows, (PATH, NAME, VERSION) its primary key
    clock,      \* the instant chrono::Utc::now() returns
    last,       \* the last call made on FilesDB and its result
    held,       \* per identity, what the calls so far have left there (see Track)
    touched,    \* the identities a successful save or move has named so far
    extension,  \* the SocketAddr extension the server attaches to requests, or None
    log_level,  \* the log::LevelFilter the logger was set up with
    mutex,      \* std::sync::Mutex around FilesDB: the request holding it, or None
    poisoned,   \* whether a handler panicked while it held the mutex
    reqs,       \* the HTTP requests of the run, by request number
    lockOrder,  \* the requests in the order in which they took the mutex
    router,     \* Router: its handlers' matchers, and the last request it routed
    server,     \* serve: the phase of the HTTP server, the exit channel, the requests
    cache,      \* table FILES of CacheDb: a function from (PATH, NAME) to the row
    cache_last, \* the last call made on CacheDb and its result
    cmp         \* compare_logs: the two logs compared last and the results

\* The state outside the file repository and its handlers.
othervars == <<router, server, cache, cache_last, cmp>>

\* The state of the file repository and its handlers.
filevars == <<files, history, clock, last, held, touched, extension, log_level, mutex, poisoned, reqs, lockOrder>>

vars == <<files, history, clock, last, held, touched, extension, log_level, mutex,
         poisoned, reqs, lockOrder, othervars>>

httpvars == <<extension, log_level, mutex, poisoned, reqs, lockOrder, othervars>>

dbvars == <<files, history>>

(***************************************************************************)
(* chrono / sha2 / std::path helpers.                                      *)
(***************************************************************************)
\* DateTime<Utc>::to_rfc3339 keeps the whole instant (AutoSi sub-second digits).
to_rfc3339(t) == <<"rfc3339", t>>

\* DateTime<Utc>::to_rfc2822 has no sub-second digits.  An instant is counted in
\* half seconds, so two instants fall into each second.
to_rfc2822(t) == <<"rfc2822", t \div 2>>

\* decode_timestamp: parse_from_rfc3339 of a stored TIMESTAMP.
decode_timestamp(s) == s[2]

\* digest: base64 of the SHA-256 of the content.
digest(data) == "sha256:" \o data

\* PathBuf::from(path).join(name).to_string_lossy()
path_join(file_path, file_name) ==
    IF file_path = "" THEN file_name ELSE file_path \o "/" \o file_name

(***************************************************************************)
(* The database: both tables, as one value the transaction works on.       *)
(***************************************************************************)
Db(f, h) == [files |-> f, history |-> h]

\* The rows of an identity in FILES_HISTORY.
HistoryRows(db, file_path, file_name) ==
    {r \in db.history : r.path = file_path /\ r.name = file_name}

Max(S) == CHOOSE m \in S : \A x \in S : x <= m

\* Mutant of get_current_version: reads max(VERSION) of FILES_HISTORY.
get_current_version_of_history(db, file_path, file_name) ==
    LET rows == HistoryRows(db, file_path, file_name)
    IN  IF rows = {} THEN None ELSE Some(Max({r.version : r \in rows}))

\* SQL_SELECT_VERSION through query_row(..).ok(): None when there is no row.
get_current_version(db, file_path, file_name) ==
    IF <<file_path, file_name>> \in DOMAIN db.files
    THEN Some(db.files[<<file_path, file_name>>].version)
    ELSE None

\* Mutant of get_history_version: count(VERSION) instead of max(VERSION).
get_history_version_count(db, file_path, file_name) ==
    Some(Cardinality(HistoryRows(db, file_path, file_name)))

\* SQL_SELECT_HISTORY_VERSION through query_row(..).ok(): max(VERSION) is NULL
\* without rows, NULL does not convert to i32, and .ok() turns that into None.
get_history_version(db, file_path, file_name) ==
    LET rows == HistoryRows(db, file_path, file_name)
    IN  IF rows = {} THEN None ELSE Some(Max({r.version : r \in rows}))

\* Mutant of SQL_UPSERT_FILE: on conflict do nothing.
SQL_UPSERT_FILE_ignore(db, file_path, file_name, version, timestamp_str, hash, file) ==
    LET id  == <<file_path, file_name>>
        row == [version |-> version, timestamp |-> timestamp_str,
                hash |-> hash, file |-> file]
    IN  IF id \in DOMAIN db.files THEN db
        ELSE [db EXCEPT !.files =
                [k \in (DOMAIN db.files) \cup {id} |-> IF k = id THEN row ELSE db.files[k]]]

\* SQL_UPSERT_FILE
SQL_UPSERT_FILE(db, file_path, file_name, version, timestamp_str, hash, file) ==
    LET id  == <<file_path, file_name>>
        row == [version |-> version, timestamp |-> timestamp_str,
                hash |-> hash, file |-> file]
    IN  [db EXCEPT !.files =
            [k \in (DOMAIN db.files) \cup {id} |-> IF k = id THEN row ELSE db.files[k]]]

\* Mutant of SQL_DELETE_FILE: the rows of the identity in FILES_HISTORY go too.
SQL_DELETE_FILE_cascade(db, file_path, file_name) ==
    LET id == <<file_path, file_name>>
    IN  [db |-> [files |-> [k \in (DOMAIN db.files) \ {id} |-> db.files[k]],
                 history |-> {r \in db.history : <<r.path, r.name>> # id}],
         rows_updated |-> IF id \in DOMAIN db.files THEN 1 ELSE 0]

\* SQL_DELETE_FILE: the database afterwards and the number of rows deleted.
SQL_DELETE_FILE(db, file_path, file_name) ==
    LET id == <<file_path, file_name>>
    IN  [db |-> [db EXCEPT !.files = [k \in (DOMAIN db.files) \ {id} |-> db.files[k]]],
         rows_updated |-> IF id \in DOMAIN db.files THEN 1 ELSE 0]

\* Mutant of HistoryLine: every line is written under the path "p".
HistoryLine_of_one_path(file_path, file_name, version, timestamp_str, operation, address, hash, old_or_new_path, file) ==
    [path |-> "p", name |-> file_name, version |-> version,
     timestamp |-> timestamp_str, operation |-> operation, ip_address |-> address,
     hash |-> hash, old_or_new_path |-> old_or_new_path, file |-> file]

HistoryLine(file_path, file_name, version, timestamp_str, operation, address, hash, old_or_new_path, file) ==
    [path |-> file_path, name |-> file_name, version |-> version,
     timestamp |-> timestamp_str, operation |-> operation, ip_address |-> address,
     hash |-> hash, old_or_new_path |-> old_or_new_path, file |-> file]

\* Mutant of SQL_INSERT_HISTORY_LINE: the content is left out of the line.
SQL_INSERT_HISTORY_LINE_without_file(db, line) ==
    LET conflict == \E r \in db.history :
                        /\ r.path = line.path
                        /\ r.name = line.name
                        /\ r.version = line.version
    IN  [ok |-> ~conflict,
         db |-> IF conflict THEN db
                ELSE [db EXCEPT !.history = @ \cup {[line EXCEPT !.file = Null]}]]

\* SQL_INSERT_HISTORY_LINE: fails on a primary key (PATH, NAME, VERSION) conflict.
SQL_INSERT_HISTORY_LINE(db, line) ==
    LET conflict == \E r \in db.history :
                        /\ r.path = line.path
                        /\ r.name = line.name
                        /\ r.version = line.version
    IN  [ok |-> ~conflict,
         db |-> IF conflict THEN db ELSE [db EXCEPT !.history = @ \cup {line}]]

\* SQL_SELECT_HISTORY: the rows of an identity, order by VERSION.
RECURSIVE SortByVersion(_)
SortByVersion(rows) ==
    IF rows = {} THEN <<>>
    ELSE LET r == CHOOSE x \in rows : \A y \in rows : x.version <= y.version
         IN  <<r>> \o SortByVersion(rows \ {r})

SQL_SELECT_HISTORY(db, file_path, file_name) ==
    SortByVersion(HistoryRows(db, file_path, file_name))

(***************************************************************************)
(* Results: Result<FilesDbResponse, RouterError> and the database the call *)
(* leaves behind.                                                          *)
(***************************************************************************)
Ok(db, version, timestamp) ==
    [ok |-> TRUE, err |-> "", version |-> version, timestamp |-> timestamp, db |-> db]

\* An error return; no FilesDbResponse (version and timestamp are -1).
Err(db, err) ==
    [ok |-> FALSE, err |-> err, version |-> -1, timestamp |-> -1, db |-> db]

\* Mutant of Rollback: the dropped transaction commits what it has done.
Rollback_commit(db, tx) == tx

\* An early return (`?` or `return Err`) while `transaction` is in scope drops it
\* without commit(): the database goes back from the working copy tx to db, the
\* state at connection.transaction().
Rollback(db, tx) == db

\* Storage faults: `fault` is the number of the step of the transaction that
\* returns an SQLite error, 0 when none does.  Step 1 is connection.transaction(),
\* then come the execute() calls in program order, and commit() is the last.

\* Mutant of save_version_mismatch: a call without version is never refused.
save_version_mismatch_lax(file_version, db_version) ==
    file_version # None /\ file_version # db_version

\* save: `if file_version != db_version` (Option<i32> against Option<i32>)
save_version_mismatch(file_version, db_version) == file_version # db_version

\* save: new_version, the current version plus one, or past the history's last one
save_new_version(db_version, hist_version) ==
    IF db_version # None THEN db_version[1] + 1
    ELSE IF hist_version = None THEN 0 ELSE hist_version[1] + 1

\* Mutant of save_operation: every line save writes is a CREATION line.
save_operation_creation(db_version) == "CREATION"

\* save: `if db_version.is_some() { "UPDATE" } else { "CREATION" }`
save_operation(db_version) ==
    IF db_version # None THEN "UPDATE" ELSE "CREATION"

\* FilesDB::save
save(db, file_path, file_name, file_data, file_version, address, now, fault) ==
    LET hash          == digest(file_data)
        timestamp     == now
        timestamp_str == to_rfc3339(timestamp)
        db_version    == get_current_version(db, file_path, file_name)
        hist_version  == get_history_version(db, file_path, file_name)
        new_version   == save_new_version(db_version, hist_version)
        line == HistoryLine(file_path, file_name, new_version, timestamp_str,
                            save_operation(db_version),
                            address, hash, Null, file_data)
        ins  == SQL_INSERT_HISTORY_LINE(db, line)
        ups  == SQL_UPSERT_FILE(ins.db, file_path, file_name, new_version,
                                timestamp_str, hash, file_data)
    IN  IF fault = 1 THEN Err(db, "HandlerError(500)")
        ELSE IF save_version_mismatch(file_version, db_version)
             THEN Err(Rollback(db, db), "HandlerError(412)")
        ELSE IF fault = 2 \/ ~ins.ok THEN Err(Rollback(db, db), "HandlerError(500)")
        ELSE IF fault = 3 THEN Err(Rollback(db, ins.db), "HandlerError(500)")
        ELSE IF fault = 4 THEN Err(Rollback(db, ups), "HandlerError(500)")
        ELSE Ok(ups, new_version, timestamp)

\* Mutant of delete_writes_history: the test is inverted.
delete_writes_history_flipped(rows_updated) == rows_updated = 0

\* delete: `if rows_updated != 0`, the DELETION line is written
delete_writes_history(rows_updated) == rows_updated # 0

\* FilesDB::delete
delete(db, file_path, file_name, file_version, address, now, fault) ==
    LET timestamp     == now
        timestamp_str == to_rfc3339(timestamp)
        db_version    == get_current_version(db, file_path, file_name)
        new_version   == db_version[1] + 1
        del  == SQL_DELETE_FILE(db, file_path, file_name)
        line == HistoryLine(file_path, file_name, new_version, timestamp_str,
                            "DELETION", address, Null, Null, Null)
        ins  == IF delete_writes_history(del.rows_updated)
                THEN SQL_INSERT_HISTORY_LINE(del.db, line)
                ELSE [ok |-> TRUE, db |-> del.db]
    IN  IF db_version = None THEN Err(db, "HandlerError(404)")
        ELSE IF fault = 1 THEN Err(db, "HandlerError(500)")
        ELSE IF file_version # db_version[1]
             THEN Err(Rollback(db, db), "HandlerError(412)")
        ELSE IF fault = 2 THEN Err(Rollback(db, db), "HandlerError(500)")
        ELSE IF (fault = 3 /\ delete_writes_history(del.rows_updated)) \/ ~ins.ok
             THEN Err(Rollback(db, del.db), "HandlerError(500)")
        ELSE IF fault = 4 THEN Err(Rollback(db, ins.db), "HandlerError(500)")
        ELSE Ok(ins.db, new_version, timestamp)

\* Mutant of get: the statement selects HASH where it should select FILE.
get_hash_column(db, file_path, file_name, get_content) ==
    IF <<file_path, file_name>> \in DOMAIN db.files
    THEN LET row == db.files[<<file_path, file_name>>]
         IN  [ok |-> TRUE, err |-> "", version |-> row.version,
              timestamp |-> decode_timestamp(row.timestamp),
              file |-> IF get_content THEN Some(row.hash) ELSE None]
    ELSE [ok |-> FALSE, err |-> "HandlerError(404)", version |-> -1,
          timestamp |-> -1, file |-> None]

\* FilesDB::get: the current row, with the content when get_content.
get(db, file_path, file_name, get_content) ==
    IF <<file_path, file_name>> \in DOMAIN db.files
    THEN LET row == db.files[<<file_path, file_name>>]
         IN  [ok |-> TRUE, err |-> "", version |-> row.version,
              timestamp |-> decode_timestamp(row.timestamp),
              file |-> IF get_content THEN Some(row.file) ELSE None]
    ELSE [ok |-> FALSE, err |-> "HandlerError(404)", version |-> -1,
          timestamp |-> -1, file |-> None]

\* <IpAddr as FromStr>::from_str of a stored IP_ADDRESS: the addresses the
\* handlers pass are written by IpAddr's Display and parse back.
IpAddr_from_str(address) ==
    IF address \in {"127.0.0.1", "0.0.0.0"} THEN Some(address) ELSE None

\* FileLogEntryType::new(operation, version, hash, path): the variant of an
\* OPERATION with its required fields; an error when a required field is NULL,
\* a forbidden one is set, or the operation is unknown.
FileLogEntryType_new(operation, version, hash, path) ==
    CASE operation \in {"CREATION", "UPDATE"} /\ hash # Null /\ path = Null ->
            [ok |-> TRUE,
             entry |-> [type |-> IF operation = "CREATION" THEN "Creation" ELSE "Update",
                        version |-> version, hash |-> hash]]
      [] operation = "DELETION" /\ hash = Null /\ path = Null ->
            [ok |-> TRUE, entry |-> [type |-> "Deletion", version |-> version]]
      [] operation = "MOVE_TO" /\ hash = Null /\ path # Null ->
            [ok |-> TRUE, entry |-> [type |-> "MoveTo", version |-> version, pathTo |-> path]]
      [] operation = "MOVE_FROM" /\ hash # Null /\ path # Null ->
            [ok |-> TRUE,
             entry |-> [type |-> "MoveFrom", version |-> version, hash |-> hash,
                        pathFrom |-> path]]
      [] OTHER -> [ok |-> FALSE]

\* FilesDB::decode_history_row: the entry of a row, None for a row that does
\* not decode (VERSION is read as u32).
decode_history_row(row) ==
    LET address == IpAddr_from_str(row.ip_address)
        entry   == FileLogEntryType_new(row.operation, row.version, row.hash,
                                        row.old_or_new_path)
    IN  IF row.version < 0 \/ address = None \/ ~entry.ok THEN None
        ELSE Some([timestamp |-> decode_timestamp(row.timestamp),
                   address |-> address[1], entry |-> entry.entry])

\* FilesDB::get_history_inner: the rows in the order of SQL_SELECT_HISTORY, the
\* ones that do not decode left out.
RECURSIVE DecodeRows(_)
DecodeRows(rows) ==
    IF rows = <<>> THEN <<>>
    ELSE LET entry == decode_history_row(Head(rows))
         IN  (IF entry = None THEN <<>> ELSE <<entry[1]>>) \o DecodeRows(Tail(rows))

get_history_inner(db, file_path, file_name) ==
    DecodeRows(SQL_SELECT_HISTORY(db, file_path, file_name))

\* Serialize of FileLogEntryType, #[serde(tag = "type")]: a JSON object with
\* the name of the variant under "type" and the fields of the variant, path_to
\* and path_from under the names pathTo and pathFrom.
Serialize_FileLogEntryType(entry) ==
    CASE entry.type \in {"Creation", "Update"} ->
            [type |-> entry.type, version |-> entry.version, hash |-> entry.hash]
      [] entry.type = "Deletion" ->
            [type |-> "Deletion", version |-> entry.version]
      [] entry.type = "MoveTo" ->
            [type |-> "MoveTo", version |-> entry.version, pathTo |-> entry.pathTo]
      [] entry.type = "MoveFrom" ->
            [type |-> "MoveFrom", version |-> entry.version, hash |-> entry.hash,
             pathFrom |-> entry.pathFrom]

\* The keys Deserialize requires for a variant, None for an unknown variant.
VariantFields(type) ==
    CASE type \in {"Creation", "Update"} -> Some({"version", "hash"})
      [] type = "Deletion" -> Some({"version"})
      [] type = "MoveTo" -> Some({"version", "pathTo"})
      [] type = "MoveFrom" -> Some({"version", "hash", "pathFrom"})
      [] OTHER -> None

\* Deserialize of FileLogEntryType: the variant named by "type" with its
\* fields; an error without "type", for an unknown variant and for a missing
\* field; other keys are ignored.
Deserialize_FileLogEntryType(json) ==
    IF "type" \notin DOMAIN json \/ VariantFields(json.type) = None THEN None
    ELSE LET fields == VariantFields(json.type)[1]
         IN  IF ~(fields \subseteq DOMAIN json) THEN None
             ELSE Some([key \in {"type"} \cup fields |-> json[key]])

\* Serialize of FileLogEntry: chrono writes the instant as an RFC 3339 string,
\* IpAddr its Display.
Serialize_FileLogEntry(e) ==
    [timestamp |-> to_rfc3339(e.timestamp), address |-> e.address,
     entry |-> Serialize_FileLogEntryType(e.entry)]

\* Deserialize of FileLogEntry
Deserialize_FileLogEntry(json) ==
    LET address == IpAddr_from_str(json.address)
        entry   == Deserialize_FileLogEntryType(json.entry)
    IN  IF address = None \/ entry = None THEN None
        ELSE Some([timestamp |-> decode_timestamp(json.timestamp),
                   address |-> address[1], entry |-> entry[1]])

\* FileVersionsHandler::handle: serde_json::to_string(&log.entries), the array
\* of the entries in their order.
serde_json_to_string(entries) ==
    [k \in DOMAIN entries |-> Serialize_FileLogEntry(entries[k])]

\* Mutant of get_versions: the entries are returned last first.
get_versions_reversed(body) ==
    LET parsed == [k \in DOMAIN body |-> Deserialize_FileLogEntry(body[k])]
    IN  IF \E k \in DOMAIN body : parsed[k] = None
        THEN [ok |-> FALSE, err |-> "HandlerError(500)", entries |-> <<>>]
        ELSE [ok |-> TRUE, err |-> "",
              entries |-> [k \in DOMAIN body |-> parsed[Len(body) + 1 - k][1]]]

\* FileClient::get_versions: serde_json::from_str of the body as
\* Vec<FileLogEntry>; HandlerError(500) when an element does not parse.
get_versions(body) ==
    LET parsed == [k \in DOMAIN body |-> Deserialize_FileLogEntry(body[k])]
    IN  IF \E k \in DOMAIN body : parsed[k] = None
        THEN [ok |-> FALSE, err |-> "HandlerError(500)", entries |-> <<>>]
        ELSE [ok |-> TRUE, err |-> "", entries |-> [k \in DOMAIN body |-> parsed[k][1]]]

\* Mutant of get_history: an empty log is returned as it is.
get_history_empty_log(db, file_path, file_name) ==
    [ok |-> TRUE, err |-> "", entries |-> get_history_inner(db, file_path, file_name)]

\* FilesDB::get_history
get_history(db, file_path, file_name) ==
    LET entries == get_history_inner(db, file_path, file_name)
    IN  IF entries = <<>> THEN [ok |-> FALSE, err |-> "NotFound", entries |-> <<>>]
        ELSE [ok |-> TRUE, err |-> "", entries |-> entries]

\* Mutant of same_identity: source and destination are not compared.
same_identity_never(file_path_from, file_name_from, file_path_to, file_name_to) == FALSE

\* move_to: `if file_name_from == file_name_to && file_path_from == file_path_to`
same_identity(file_path_from, file_name_from, file_path_to, file_name_to) ==
    file_name_from = file_name_to /\ file_path_from = file_path_to

\* Mutant of destination_exists: the destination is not looked at.
destination_exists_never(db_version_to) == FALSE

\* move_to: `if let Some(_) = db_version_to`
destination_exists(db_version_to) == db_version_to # None

\* Mutant of move_to_line: the line names the source, not the destination.
move_to_line_names_source(file_path_from, file_name_from, new_version_from, timestamp_str, address, path_to) ==
    HistoryLine(file_path_from, file_name_from, new_version_from, timestamp_str,
                "MOVE_TO", address, Null, path_join(file_path_from, file_name_from), Null)

\* move_to: the MOVE_TO line of the source
move_to_line(file_path_from, file_name_from, new_version_from, timestamp_str, address, path_to) ==
    HistoryLine(file_path_from, file_name_from, new_version_from, timestamp_str,
                "MOVE_TO", address, Null, path_to, Null)

\* Mutant of move_from_line: hash and content are left NULL as in the MOVE_TO line.
move_from_line_nulls(file_path_to, file_name_to, new_version_to, timestamp_str, address, hash, path_from, file_data) ==
    HistoryLine(file_path_to, file_name_to, new_version_to, timestamp_str,
                "MOVE_FROM", address, Null, path_from, Null)

\* move_to: the MOVE_FROM line of the destination
move_from_line(file_path_to, file_name_to, new_version_to, timestamp_str, address, hash, path_from, file_data) ==
    HistoryLine(file_path_to, file_name_to, new_version_to, timestamp_str,
                "MOVE_FROM", address, hash, path_from, file_data)

\* FilesDB::move_to.  now2 is the second reading of the clock (timestamp_str).
move_to(db, file_path_from, file_name_from, file_version_from, file_path_to, file_name_to, address, now, now2, fault) ==
    LET db_version_from == get_current_version(db, file_path_from, file_name_from)
        db_version_to   == get_current_version(db, file_path_to, file_name_to)
        got             == get(db, file_path_from, file_name_from, TRUE)
        file_data       == got.file[1]
        hash            == digest(file_data)
        timestamp       == now
        timestamp_str   == to_rfc3339(now2)
        new_version_from == db_version_from[1] + 1
        hist_version_to  == get_history_version(db, file_path_to, file_name_to)
        new_version_to   == IF hist_version_to = None THEN 0 ELSE hist_version_to[1] + 1
        path_from == path_join(file_path_from, file_name_from)
        path_to   == path_join(file_path_to, file_name_to)
        ins1 == SQL_INSERT_HISTORY_LINE(db,
                    move_to_line(file_path_from, file_name_from, new_version_from,
                                 timestamp_str, address, path_to))
        ins2 == SQL_INSERT_HISTORY_LINE(ins1.db,
                    move_from_line(file_path_to, file_name_to, new_version_to,
                                   timestamp_str, address, hash, path_from, file_data))
        del  == SQL_DELETE_FILE(ins2.db, file_path_from, file_name_from)
        ups  == SQL_UPSERT_FILE(del.db, file_path_to, file_name_to, new_version_to,
                                timestamp_str, hash, file_data)
    IN  IF same_identity(file_path_from, file_name_from, file_path_to, file_name_to)
        THEN Err(db, "InvalidRequest")
        ELSE IF db_version_from = None THEN Err(db, "HandlerError(404)")
        ELSE IF db_version_from[1] # file_version_from THEN Err(db, "HandlerError(412)")
        ELSE IF destination_exists(db_version_to) THEN Err(db, "HandlerError(412)")
        ELSE IF ~got.ok THEN Err(db, got.err)
        ELSE IF fault = 1 THEN Err(db, "HandlerError(500)")
        ELSE IF fault = 2 \/ ~ins1.ok THEN Err(Rollback(db, db), "HandlerError(500)")
        ELSE IF fault = 3 \/ ~ins2.ok
             THEN Err(Rollback(db, ins1.db), "HandlerError(500)")
        ELSE IF fault = 4 THEN Err(Rollback(db, ins2.db), "HandlerError(500)")
        ELSE IF fault = 5 THEN Err(Rollback(db, del.db), "HandlerError(500)")
        ELSE IF fault = 6 THEN Err(Rollback(db, ups), "HandlerError(500)")
        ELSE Ok(ups, new_version_to, timestamp)

\* Router::error: the HTTP status of a RouterError.
StatusOf(err) ==
    CASE err = "InvalidRequest"    -> 400
      [] err = "NotFound"          -> 404
      [] err = "MethodNotAllowed"  -> 405
      [] err = "HandlerError(400)" -> 400
      [] err = "HandlerError(404)" -> 404
      [] err = "HandlerError(412)" -> 412
      [] err = "HandlerError(500)" -> 500
      [] err = "HandlerError(504)" -> 504


(***************************************************************************)
(* Calls on FilesDB, one after the other (as the tests of db.rs make them). *)
(***************************************************************************)
Live(id) == id \in DOMAIN files

\* The rows of an identity, order by VERSION, in the current state.
Hist(id) == SQL_SELECT_HISTORY(Db(files, history), id[1], id[2])

\* The versions a caller may pass as expected version of an identity: the
\* current one, and the ones around the last version the identity had, so that
\* matching, stale and future versions all occur.
ExpectedVersions(id) ==
    LET hv == get_history_version(Db(files, history), id[1], id[2])
        m  == IF hv = None THEN 0 ELSE hv[1]
    IN  {v \in {m - 1, m, m + 1} : v >= 0}
        \cup (IF Live(id) THEN {files[id].version} ELSE {})

\* The model stops growing FILES_HISTORY at max_rows rows.
WithinBounds(db, max_rows) == Cardinality(db.history) <= max_rows

NoCall ==
    [op |-> "none", id |-> <<"", "">>, to |-> <<"", "">>, expected |-> None,
     data |-> Null, ok |-> FALSE, err |-> "", version |-> -1, timestamp |-> -1]

Call(op, id, to, expected, data, r) ==
    [op |-> op, id |-> id, to |-> to, expected |-> expected, data |-> data,
     ok |-> r.ok, err |-> r.err, version |-> r.version, timestamp |-> r.timestamp]

Commit(r, max_rows) ==
    /\ WithinBounds(r.db, max_rows)
    /\ files' = r.db.files
    /\ history' = r.db.history

\* What the callers of FilesDB know an identity to hold, from the calls they
\* made and the results they got: the bytes and the version of the last
\* successful save, or of the last successful move to it, and None once a
\* delete or a move away from it succeeded.  Kept apart from both tables.
HeldAfter(h, call) ==
    IF ~call.ok THEN h
    ELSE CASE call.op = "save" ->
                [h EXCEPT ![call.id] = Some(<<call.data, call.version>>)]
           [] call.op = "delete" ->
                [h EXCEPT ![call.id] = None]
           [] call.op = "move_to" ->
                [h EXCEPT ![call.id] = None,
                          ![call.to] = IF h[call.id] = None THEN Some(<<Null, call.version>>)
                                       ELSE Some(<<h[call.id][1][1], call.version>>)]
           [] OTHER -> h

\* The identities that were the target of a successful save, or the source or
\* the destination of a successful move.
TouchedAfter(t, call) ==
    IF ~call.ok THEN t
    ELSE CASE call.op = "save"    -> t \cup {call.id}
           [] call.op = "move_to" -> t \cup {call.id, call.to}
           [] OTHER               -> t

Track(call) ==
    /\ last' = call
    /\ held' = HeldAfter(held, call)
    /\ touched' = TouchedAfter(touched, call)

\* db.save(path, name, &data, expected, &address)
DbSave(Faults, max_rows) ==
    \E id \in IDs, data \in Data, fault \in Faults :
    \E expected \in {None} \cup {Some(v) : v \in ExpectedVersions(id)} :
        LET r == save(Db(files, history), id[1], id[2], data, expected, Address,
                      clock, fault)
        IN  /\ Commit(r, max_rows)
            /\ Track(Call("save", id, <<"", "">>, expected, data, r))
            /\ UNCHANGED <<clock, httpvars>>

\* db.delete(path, name, expected, &address)
DbDelete(Faults, max_rows) ==
    \E id \in IDs, fault \in Faults :
    \E expected \in ExpectedVersions(id) :
        LET r == delete(Db(files, history), id[1], id[2], expected, Address,
                        clock, fault)
        IN  /\ Commit(r, max_rows)
            /\ Track(Call("delete", id, <<"", "">>, Some(expected), Null, r))
            /\ UNCHANGED <<clock, httpvars>>

\* db.move_to(path_from, name_from, expected, path_to, name_to, &address)
DbMoveTo(Faults, max_rows) ==
    \E id \in IDs, to \in IDs, fault \in Faults :
    \E expected \in ExpectedVersions(id) :
        LET r == move_to(Db(files, history), id[1], id[2], expected, to[1], to[2],
                         Address, clock, clock, fault)
        IN  /\ Commit(r, max_rows)
            /\ Track(Call("move_to", id, to, Some(expected), Null, r))
            /\ UNCHANGED <<clock, httpvars>>

\* db.get(path, name, get_content)
DbGet ==
    \E id \in IDs, get_content \in BOOLEAN :
        LET r == get(Db(files, history), id[1], id[2], get_content)
        IN  /\ Track([op |-> IF get_content THEN "get" ELSE "get_no_content",
                      id |-> id, to |-> <<"", "">>, expected |-> None,
                      data |-> IF r.file = None THEN Null ELSE r.file[1],
                      ok |-> r.ok, err |-> r.err, version |-> r.version,
                      timestamp |-> r.timestamp])
            /\ UNCHANGED <<files, history, clock, httpvars>>

\* db.get_history(path, name), the body GET /file-versions/ makes of the log
\* and the entries the cache's client reads from that body.
DbGetHistory ==
    \E id \in IDs :
        LET r == get_history(Db(files, history), id[1], id[2])
            body == serde_json_to_string(r.entries)
        IN  /\ Track([op |-> "get_history", id |-> id, to |-> <<"", "">>,
                      expected |-> None, data |-> Null, ok |-> r.ok, err |-> r.err,
                      version |-> -1, timestamp |-> -1, entries |-> r.entries,
                      body |-> body, versions |-> get_versions(body)])
            /\ UNCHANGED <<files, history, clock, httpvars>>

\* Router::new: no handler is registered.
NoRouter == [handlers |-> <<>>, request |-> <<>>, result |-> <<>>]

\* serve before hyper::Server::bind.
NoServer == [phase |-> "idle"]

\* No call on CacheDb yet.
NoCacheCall == [op |-> "none"]

\* No call of compare_logs yet.
NoComparison == [called |-> FALSE]

\* The parts of the program a run does not use stay as constructed.
OthersIdle ==
    /\ router = NoRouter
    /\ server = NoServer
    /\ cache = <<>>
    /\ cache_last = NoCacheCall
    /\ cmp = NoComparison

\* FilesDB::new on an empty directory: both tables are created empty.
Init ==
    /\ files = <<>>
    /\ history = {}
    /\ clock = 0
    /\ last = NoCall
    /\ held = [id \in IDs |-> None]
    /\ touched = {}
    /\ extension = None
    /\ log_level = "Warn"
    /\ mutex = None
    /\ poisoned = FALSE
    /\ reqs = <<>>
    /\ lockOrder = <<>>
    /\ OthersIdle

\* The storage never fails.
Next == DbSave({0}, MaxRows) \/ DbDelete({0}, MaxRows) \/ DbMoveTo({0}, MaxRows)

Spec == Init /\ [][Next]_vars

\* Any step of a transaction may fail.
NextFault ==
    \/ DbSave(0 .. 4, MaxFaultRows)
    \/ DbDelete(0 .. 4, MaxFaultRows)
    \/ DbMoveTo(0 .. 6, MaxFaultRows)

SpecFault == Init /\ [][NextFault]_vars

\* The calls that change the repository and the calls that read it back.
NextRead ==
    \/ DbSave({0}, MaxReadRows)
    \/ DbDelete({0}, MaxReadRows)
    \/ DbMoveTo({0}, MaxReadRows)
    \/ DbGet
    \/ DbGetHistory

SpecRead == Init /\ [][NextRead]_vars


(***************************************************************************)
(* HTTP: header values are sequences of characters.                        *)
(***************************************************************************)
Digits == <<"0", "1", "2", "3", "4", "5", "6", "7", "8", "9">>

IsDigit(c) == \E d \in 1 .. 10 : Digits[d] = c

DigitValue(c) == (CHOOSE d \in 1 .. 10 : Digits[d] = c) - 1

\* format!("{}", n) of a non-negative integer
RECURSIVE ToDecimal(_)
ToDecimal(n) ==
    IF n < 10 THEN <<Digits[n + 1]>>
    ELSE ToDecimal(n \div 10) \o <<Digits[(n % 10) + 1]>>

\* get_response_builder: format!("\"{}\"", data.version)
format_etag(version) == <<"\"">> \o ToDecimal(version) \o <<"\"">>

\* ETAG_REGEX \s*"(\d+)"\s* is not anchored: its group is the digits of the
\* first quoted run of digits of the header value.
etag_captures(h) ==
    LET starts == {i \in 1 .. Len(h) :
                    /\ h[i] = "\""
                    /\ \E j \in i + 2 .. Len(h) :
                        /\ h[j] = "\""
                        /\ \A k \in i + 1 .. j - 1 : IsDigit(h[k])}
    IN  IF starts = {} THEN None
        ELSE LET i == CHOOSE x \in starts : \A y \in starts : x <= y
                 j == CHOOSE x \in i + 2 .. Len(h) :
                        h[x] = "\"" /\ \A k \in i + 1 .. x - 1 : IsDigit(h[k])
             IN  Some(SubSeq(h, i + 1, j - 1))

RECURSIVE StripZeros(_)
StripZeros(ds) ==
    IF Len(ds) > 1 /\ ds[1] = "0" THEN StripZeros(Tail(ds)) ELSE ds

RECURSIVE DecimalValue(_)
DecimalValue(ds) ==
    IF ds = <<>> THEN 0
    ELSE 10 * DecimalValue(SubSeq(ds, 1, Len(ds) - 1)) + DigitValue(ds[Len(ds)])

\* str::parse::<i32>() of a run of digits: None past i32::MAX = 2147483647.
parse_i32(digits) ==
    LET ds   == StripZeros(digits)
        high == DecimalValue(SubSeq(ds, 1, 9))
    IN  IF Len(ds) <= 9 THEN Some(DecimalValue(ds))
        ELSE IF Len(ds) > 10 THEN None
        ELSE IF high < 214748364 \/ (high = 214748364 /\ DigitValue(ds[10]) <= 7)
             THEN Some(10 * high + DigitValue(ds[10]))
        ELSE None

\* get_version_info_from_headers: the version of the etag header, if any.
get_version_info_from_headers(etag) ==
    IF etag = None THEN None
    ELSE LET m == etag_captures(etag[1])
         IN  IF m = None THEN None ELSE parse_i32(m[1])

\* The URI /files/<path>/<name> of an identity, as its segments.
UriOf(id) == <<"files", id[1], id[2]>>

RECURSIVE JoinSegments(_)
JoinSegments(segs) ==
    IF segs = <<>> THEN ""
    ELSE IF Len(segs) = 1 THEN segs[1]
    ELSE segs[1] \o "/" \o JoinSegments(Tail(segs))

\* get_path_and_name_from_uri: (parent of the path after the prefix, file name)
get_path_and_name_from_uri(uri) ==
    <<JoinSegments(SubSeq(uri, 2, Len(uri) - 1)), uri[Len(uri)]>>

\* DEFAULT_SOCK_ADDRESS
DEFAULT_SOCK_ADDRESS == "0.0.0.0"

\* Mutant of get_response_builder: the etag is sent without its quotes.
get_response_builder_unquoted(data, status) ==
    [status |-> status, etag |-> Some(ToDecimal(data.version)),
     last_modified |-> Some(to_rfc2822(data.timestamp))]

\* get_response_builder: status, last-modified and etag of a FilesDbResponse
get_response_builder(data, status) ==
    [status |-> status, etag |-> Some(format_etag(data.version)),
     last_modified |-> Some(to_rfc2822(data.timestamp))]

\* chrono::DateTime::parse_from_rfc3339 of a header value: the instant of an
\* RFC 3339 string, an error for any other string, RFC 2822 included.
parse_from_rfc3339(h) == IF h[1] = "rfc3339" THEN Some(h[2]) ELSE None

\* get_sync_information of the cache's FileClient: the version of the etag
\* header and the instant of the last-modified header, None when one of them
\* is missing or does not parse.
get_sync_information(headers) ==
    LET captures  == IF headers.etag = None THEN None ELSE etag_captures(headers.etag[1])
        version   == IF captures = None THEN None ELSE parse_i32(captures[1])
        timestamp == IF headers.last_modified = None THEN None
                     ELSE parse_from_rfc3339(headers.last_modified[1])
    IN  IF version = None \/ timestamp = None THEN None
        ELSE Some([last_synced_version |-> version[1],
                   last_synced_timestamp |-> timestamp[1]])

\* Router::error: the plain-text answer to a RouterError
RouterErrorResponse(err) ==
    [status |-> StatusOf(err), etag |-> None, last_modified |-> None]

NoResponse == [status |-> 0, etag |-> None, last_modified |-> None]

(***************************************************************************)
(* The requests and the handlers of get_file_handlers.                     *)
(***************************************************************************)
\* The etag headers requests carry: none, or a version in quotes.
EtagHeaders == {None, Some(format_etag(0)), Some(format_etag(1))}

\* A request whose handler has neither answered nor panicked.
InFlight(i) == reqs[i].pc \in {"body", "lock", "locked"}

\* A request as it arrives; overlaps are the requests in flight at that time.
Request(method, uri, etag, destination, body) ==
    [method |-> method, uri |-> uri, etag |-> etag, destination |-> destination,
     body |-> body, pc |-> "new", version |-> None, response |-> NoResponse,
     overlaps |-> {i \in DOMAIN reqs : InFlight(i)}]

\* A request arrives and its handler runs up to its first suspension.
Arrive(request) ==
    /\ Len(reqs) < NReqs
    /\ reqs' = Append(reqs, request)
    /\ UNCHANGED <<files, history, clock, last, held, touched, extension, log_level, othervars, mutex,
                 poisoned, lockOrder>>

Respond(request, response) ==
    [request EXCEPT !.pc = "done", !.response = response]

\* PutFileHandler::handle up to hyper::body::to_bytes(body).await
PutFirst(request) ==
    IF extension = None THEN [request EXCEPT !.pc = "panic"]
    ELSE [request EXCEPT !.pc = "body",
                         !.version = get_version_info_from_headers(request.etag)]

\* Mutant of DeleteFirst: a missing version counts as version 0.
DeleteFirst_default_version(request) ==
    LET version == get_version_info_from_headers(request.etag)
    IN  [request EXCEPT !.pc = "lock",
                        !.version = IF version = None THEN Some(0) ELSE version]

\* DeleteFileHandler::handle up to file_repo.lock()
DeleteFirst(request) ==
    LET version == get_version_info_from_headers(request.etag)
    IN  IF version = None
        THEN Respond(request, RouterErrorResponse("HandlerError(400)"))
        ELSE [request EXCEPT !.pc = "lock", !.version = version]

\* MoveFileHandler::handle up to file_repo.lock()
MoveFirst(request) ==
    LET version == get_version_info_from_headers(request.etag)
    IN  IF request.destination = None
        THEN Respond(request, RouterErrorResponse("HandlerError(400)"))
        ELSE IF version = None
        THEN Respond(request, RouterErrorResponse("HandlerError(400)"))
        ELSE [request EXCEPT !.pc = "lock", !.version = version]

PutArrives ==
    \E id \in IDs, etag \in EtagHeaders :
        Arrive(PutFirst(Request("PUT", UriOf(id), etag, None, "d2")))

DeleteArrives ==
    \E id \in IDs, etag \in EtagHeaders :
        Arrive(DeleteFirst(Request("DELETE", UriOf(id), etag, None, Null)))

MoveArrives ==
    \E id \in IDs, etag \in EtagHeaders :
    \E destination \in {None} \cup {Some(UriOf(to)) : to \in IDs} :
        Arrive(MoveFirst(Request("MOVE", UriOf(id), etag, destination, Null)))

\* PutFileHandler::handle: the body has been read.
PutBody(i) ==
    /\ reqs[i].pc = "body"
    /\ reqs' = [reqs EXCEPT ![i].pc = "lock"]
    /\ UNCHANGED <<files, history, clock, last, held, touched, extension, log_level, othervars, mutex,
                 poisoned, lockOrder>>

\* file_repo.lock().unwrap(): the request waits until the mutex is free; on a
\* poisoned mutex lock() returns an error, the guard in it is dropped, and
\* unwrap() panics.
Lock(i) ==
    /\ reqs[i].pc = "lock"
    /\ mutex = None
    /\ IF poisoned
       THEN /\ reqs' = [reqs EXCEPT ![i].pc = "panic"]
            /\ UNCHANGED <<mutex, lockOrder>>
       ELSE /\ mutex' = Some(i)
            /\ lockOrder' = Append(lockOrder, i)
            /\ reqs' = [reqs EXCEPT ![i].pc = "locked"]
    /\ UNCHANGED <<files, history, clock, last, held, touched, extension, log_level, othervars, poisoned>>

\* The address a handler passes on: the peer's, or DEFAULT_SOCK_ADDRESS.
PeerAddress == IF extension = None THEN DEFAULT_SOCK_ADDRESS ELSE extension[1]

\* The rest of a handler, holding the mutex: the call on FilesDB, the response,
\* and the release of the mutex as the guard goes out of scope.
Finish(i, r, status) ==
    /\ files' = r.db.files
    /\ history' = r.db.history
    /\ reqs' = [reqs EXCEPT ![i] =
                    Respond(@, IF r.ok THEN get_response_builder(r, status)
                               ELSE RouterErrorResponse(r.err))]
    /\ mutex' = None
    /\ UNCHANGED <<clock, last, held, touched, extension, log_level, othervars, poisoned, lockOrder>>

\* PutFileHandler::handle from repo.save on
PutSave(i) ==
    /\ reqs[i].pc = "locked" /\ reqs[i].method = "PUT"
    /\ LET id == get_path_and_name_from_uri(reqs[i].uri)
       IN  Finish(i, save(Db(files, history), id[1], id[2], reqs[i].body,
                          reqs[i].version, PeerAddress, clock, 0), 201)

\* DeleteFileHandler::handle from repo.delete on
DeleteDelete(i) ==
    /\ reqs[i].pc = "locked" /\ reqs[i].method = "DELETE"
    /\ LET id == get_path_and_name_from_uri(reqs[i].uri)
       IN  Finish(i, delete(Db(files, history), id[1], id[2], reqs[i].version[1],
                            PeerAddress, clock, 0), 204)

\* MoveFileHandler::handle from repo.move_to on
MoveMoveTo(i) ==
    /\ reqs[i].pc = "locked" /\ reqs[i].method = "MOVE"
    /\ LET from == get_path_and_name_from_uri(reqs[i].uri)
           to   == get_path_and_name_from_uri(reqs[i].destination[1])
       IN  Finish(i, move_to(Db(files, history), from[1], from[2], reqs[i].version[1],
                             to[1], to[2], PeerAddress, clock, clock, 0), 204)

EmptyDb == Db(<<>>, {})

\* The databases the server may open: a new one, or one of an earlier run that
\* saved a file.
StartDbs ==
    {EmptyDb, save(EmptyDb, "p", "a", "d1", None, Address, 0, 0).db}

\* The handlers share one FilesDB behind one mutex. The server of the router
\* crate attaches no SocketAddr extension to requests; a server that embeds
\* the handlers may attach the peer's address to every request.
InitHttp ==
    /\ \E db \in StartDbs : files = db.files /\ history = db.history
    /\ clock = 0
    /\ last = NoCall
    /\ held = [id \in IDs |-> None]
    /\ touched = {}
    /\ extension \in {None, Some(Address)}
    /\ log_level = "Warn"
    /\ mutex = None
    /\ poisoned = FALSE
    /\ reqs = <<>>
    /\ lockOrder = <<>>
    /\ OthersIdle

NextHttp ==
    \/ PutArrives
    \/ DeleteArrives
    \/ MoveArrives
    \/ \E i \in DOMAIN reqs : PutBody(i)
    \/ \E i \in DOMAIN reqs : Lock(i)
    \/ \E i \in DOMAIN reqs : PutSave(i)
    \/ \E i \in DOMAIN reqs : DeleteDelete(i)
    \/ \E i \in DOMAIN reqs : MoveMoveTo(i)

SpecHttp == InitHttp /\ [][NextHttp]_vars

(***************************************************************************)
(* The server with all the handlers of /files/, as Router::handle runs     *)
(* them, under every logging configuration.                                *)
(***************************************************************************)
\* log::LevelFilter, from the least to the most verbose.
LevelFilters == <<"Off", "Error", "Warn", "Info", "Debug", "Trace">>

LevelRank(level) == CHOOSE k \in DOMAIN LevelFilters : LevelFilters[k] = level

\* log::info! evaluates its arguments only when the level Info is enabled.
log_info_enabled == LevelRank(log_level) >= LevelRank("Info")

\* Etag headers without a version: a number without quotes, and a quoted
\* number past i32::MAX.
BadEtags ==
    {Some(<<"0">>),
     Some(<<"\"", "2", "1", "4", "7", "4", "8", "3", "6", "4", "8", "\"">>)}

\* The requests clients send in these runs.
ServeRequests ==
    LET uri == UriOf(<<"p", "a">>)
        to  == UriOf(<<"p", "b">>)
        etags == {None, Some(format_etag(0))} \cup BadEtags
    IN  {Request(m, uri, None, None, Null) : m \in {"GET", "HEAD"}}
        \cup {Request("PUT", uri, None, None, "d2")}
        \cup {Request("DELETE", uri, etag, None, Null) : etag \in etags}
        \cup {Request("MOVE", uri, etag, destination, Null) :
                    etag \in etags, destination \in {None, Some(to)}}

\* GetFileHandler::handle up to file_repo.lock()
GetFirst(request) == [request EXCEPT !.pc = "lock"]

\* Router::handle: the handler whose matcher accepts the method runs up to its
\* first suspension.
RouterHandle(request) ==
    CASE request.method \in {"GET", "HEAD"} -> GetFirst(request)
      [] request.method = "PUT"    -> PutFirst(request)
      [] request.method = "DELETE" -> DeleteFirst(request)
      [] request.method = "MOVE"   -> MoveFirst(request)

ServeArrives ==
    \E request \in ServeRequests :
        /\ Len(reqs) < NServe
        /\ reqs' = Append(reqs, RouterHandle(request))
        /\ UNCHANGED <<files, history, clock, last, held, touched, extension, log_level, othervars,
                       mutex, poisoned, lockOrder>>

\* The response of GetFileHandler to a found file.
GetResponse(data, file_name, is_get) ==
    [status |-> 200,
     etag |-> get_response_builder(data, 200).etag,
     last_modified |-> get_response_builder(data, 200).last_modified,
     content_disposition |-> <<"attachment; filename=", file_name>>,
     body |-> IF is_get THEN data.file[1] ELSE ""]

\* GetFileHandler::handle from repo.get on.  The argument of log::info!,
\* data.file.as_ref().unwrap(), panics on HEAD, which reads no content, when
\* the level Info is enabled; the guard is dropped by the unwinding, which
\* poisons the mutex.
GetGet(i) ==
    /\ reqs[i].pc = "locked" /\ reqs[i].method \in {"GET", "HEAD"}
    /\ LET id     == get_path_and_name_from_uri(reqs[i].uri)
           is_get == reqs[i].method = "GET"
           data   == get(Db(files, history), id[1], id[2], is_get)
       IN  IF ~data.ok
           THEN /\ reqs' = [reqs EXCEPT ![i] = Respond(@, RouterErrorResponse(data.err))]
                /\ UNCHANGED poisoned
           ELSE IF log_info_enabled /\ data.file = None
           THEN /\ reqs' = [reqs EXCEPT ![i].pc = "panic"]
                /\ poisoned' = TRUE
           ELSE /\ reqs' = [reqs EXCEPT ![i] = Respond(@, GetResponse(data, id[2], is_get))]
                /\ UNCHANGED poisoned
    /\ mutex' = None
    /\ UNCHANGED <<files, history, clock, last, held, touched, extension, log_level, othervars,
                   lockOrder>>

InitServe ==
    /\ \E db \in StartDbs : files = db.files /\ history = db.history
    /\ clock = 0
    /\ last = NoCall
    /\ held = [id \in IDs |-> None]
    /\ touched = {}
    /\ extension \in {None, Some(Address)}
    /\ log_level \in {LevelFilters[k] : k \in DOMAIN LevelFilters}
    /\ mutex = None
    /\ poisoned = FALSE
    /\ reqs = <<>>
    /\ lockOrder = <<>>
    /\ OthersIdle

NextServe ==
    \/ ServeArrives
    \/ \E i \in DOMAIN reqs : PutBody(i)
    \/ \E i \in DOMAIN reqs : Lock(i)
    \/ \E i \in DOMAIN reqs : GetGet(i)
    \/ \E i \in DOMAIN reqs : PutSave(i)
    \/ \E i \in DOMAIN reqs : DeleteDelete(i)
    \/ \E i \in DOMAIN reqs : MoveMoveTo(i)

SpecServe == InitServe /\ [][NextServe]_vars

(***************************************************************************)
(* The cache's FileClient (cache/src/client.rs) as the client of the        *)
(* handlers of /files/.                                                    *)
(***************************************************************************)
\* Mutant of FileClient_get_request_builder: the request carries etag "0".
FileClient_get_request_builder_with_etag(file_path, file_name) ==
    Request("GET", UriOf(<<file_path, file_name>>), Some(format_etag(0)), None, Null)

\* FileClient::get_request_builder: method GET, the uri /files/{path}/{name},
\* HTTP/1.1, and no header.
FileClient_get_request_builder(file_path, file_name) ==
    Request("GET", UriOf(<<file_path, file_name>>), None, None, Null)

\* The client sends a request; its handler runs up to its first suspension.
ClientSends(request) ==
    /\ Len(reqs) < NServe
    /\ reqs' = Append(reqs, RouterHandle(request))
    /\ UNCHANGED <<files, history, clock, last, held, touched, extension, log_level,
                   othervars, mutex, poisoned, lockOrder>>

\* FileClient::save: the request
ClientSave ==
    \E id \in IDs, file \in Data :
        ClientSends([FileClient_get_request_builder(id[1], id[2])
                        EXCEPT !.method = "PUT", !.body = file])

\* FileClient::delete: the request
ClientDelete ==
    \E id \in IDs :
        ClientSends([FileClient_get_request_builder(id[1], id[2])
                        EXCEPT !.method = "DELETE"])

\* FileClient::move_to: the MOVE request with its destination header
ClientMoveTo ==
    \E id \in IDs, to \in IDs :
        ClientSends([FileClient_get_request_builder(id[1], id[2])
                        EXCEPT !.method = "MOVE", !.destination = Some(UriOf(to))])

\* FileClient::move_to: once the MOVE request is answered, or has failed, a
\* HEAD request for the destination, whatever the answer was.
ClientMoveToHead ==
    /\ reqs # <<>>
    /\ LET request == reqs[Len(reqs)]
           to == get_path_and_name_from_uri(request.destination[1])
       IN  /\ request.method = "MOVE"
           /\ request.pc \in {"done", "panic"}
           /\ ClientSends([FileClient_get_request_builder(to[1], to[2])
                              EXCEPT !.method = "HEAD"])

\* What save, delete and move_to of the client return for the request they
\* sent: an error when the connection failed (the handler panicked) and for
\* every status but 200 and 201 (save) or 200 and 204 (delete, move_to).
FileClient_result(request) ==
    IF request.pc = "panic" THEN "HandlerError(500)"
    ELSE IF request.method = "PUT" /\ request.response.status \in {200, 201} THEN "Ok"
    ELSE IF request.method \in {"DELETE", "MOVE"} /\ request.response.status \in {200, 204}
    THEN "Ok"
    ELSE "HandlerError(500)"

NextClient ==
    \/ ClientSave
    \/ ClientDelete
    \/ ClientMoveTo
    \/ ClientMoveToHead
    \/ \E i \in DOMAIN reqs : PutBody(i)
    \/ \E i \in DOMAIN reqs : Lock(i)
    \/ \E i \in DOMAIN reqs : GetGet(i)
    \/ \E i \in DOMAIN reqs : PutSave(i)

SpecClient == InitServe /\ [][NextClient]_vars

(***************************************************************************)
(* Router::handle with its timeout.  async_std::future::timeout polls the  *)
(* handler first and the timer only when the handler is Pending, so the    *)
(* handler is dropped only at one of its await points.                     *)
(***************************************************************************)
\* The await points of the handlers of /files/: to_bytes(body).await of
\* PutFileHandler.  std::sync::Mutex::lock blocks the thread and is none.
Suspended(request) == request.method = "PUT" /\ request.pc = "body"

\* Mutant of Dropped: the history line of the request's save is there already.
Dropped_history_line(db, request) ==
    LET id == get_path_and_name_from_uri(request.uri)
        hv == get_history_version(db, id[1], id[2])
    IN  SQL_INSERT_HISTORY_LINE(db,
            HistoryLine(id[1], id[2], IF hv = None THEN 0 ELSE hv[1] + 1,
                        to_rfc3339(0), "CREATION", Address, digest(request.body),
                        Null, request.body)).db

\* What the repository holds once the timed-out handler is dropped: at its
\* await point the handler has neither locked the repository nor begun a
\* transaction.
Dropped(db, request) == db

\* Router::handle: the timer fires while the handler is Pending; the handler
\* is dropped and Router::error answers HandlerError(504).
HandlerTimeout(i) ==
    /\ Suspended(reqs[i])
    /\ LET db == Dropped(Db(files, history), reqs[i])
       IN  files' = db.files /\ history' = db.history
    /\ reqs' = [reqs EXCEPT ![i] = Respond(@, RouterErrorResponse("HandlerError(504)"))]
    /\ UNCHANGED <<clock, last, held, touched, extension, log_level, othervars, mutex, poisoned,
                   lockOrder>>

NextTimeout == NextServe \/ \E i \in DOMAIN reqs : HandlerTimeout(i)

SpecTimeout == InitServe /\ [][NextTimeout]_vars

(***************************************************************************)
(* Router: the registration of handlers and the choice of the handler of a *)
(* request (router/src/router.rs, router/matcher.rs).                      *)
(***************************************************************************)
\* Paths of requests, as their segments.
RouterPaths == {<<"jsonrpc">>, <<"files", "a">>, <<"other">>}

RouterMethods == {"GET", "PUT", "POST"}

\* enum UriMatcher: All, Exact(uri), Regex(re).  The regular expression of the
\* runs is ^/files/.
UriMatchers ==
    {[kind |-> "All"], [kind |-> "Exact", uri |-> <<"jsonrpc">>],
     [kind |-> "Regex", re |-> "^/files/"]}

\* enum MethodMatcher: All, Exact(method), Excluding(method)
MethodMatchers ==
    {[kind |-> "All"], [kind |-> "Exact", method |-> "GET"],
     [kind |-> "Excluding", method |-> "GET"]}

\* struct MatcherImpl
Matchers == [uri_matcher : UriMatchers, method_matcher : MethodMatchers]

\* Regex::is_match of ^/files/ on a path
is_match(re, path) == Len(path) >= 2 /\ path[1] = "files"

\* MatcherImpl::matches
matches(matcher, request) ==
    LET uri_match ==
            CASE matcher.uri_matcher.kind = "All" -> TRUE
              [] matcher.uri_matcher.kind = "Exact" ->
                    request.path = matcher.uri_matcher.uri
              [] matcher.uri_matcher.kind = "Regex" ->
                    is_match(matcher.uri_matcher.re, request.path)
        method_match ==
            CASE matcher.method_matcher.kind = "All" -> TRUE
              [] matcher.method_matcher.kind = "Exact" ->
                    request.method = matcher.method_matcher.method
              [] matcher.method_matcher.kind = "Excluding" ->
                    request.method # matcher.method_matcher.method
    IN  IF uri_match THEN (IF method_match THEN "OK" ELSE "UriOnly") ELSE "KO"

\* Mutant of get_handler_from: the first matcher that returns UriOnly ends the
\* search.
RECURSIVE get_handler_stops_at_uri(_, _, _, _)
get_handler_stops_at_uri(handlers, request, k, server_error) ==
    IF k > Len(handlers) THEN [ok |-> FALSE, err |-> server_error, handler |-> 0]
    ELSE CASE matches(handlers[k], request) = "OK" ->
                [ok |-> TRUE, err |-> "", handler |-> k]
           [] matches(handlers[k], request) = "UriOnly" ->
                [ok |-> FALSE, err |-> "MethodNotAllowed", handler |-> 0]
           [] OTHER -> get_handler_stops_at_uri(handlers, request, k + 1, server_error)

\* Router::get_handler: the loop over self.handlers from handler k on, with the
\* server_error found so far.
RECURSIVE get_handler_from(_, _, _, _)
get_handler_from(handlers, request, k, server_error) ==
    IF k > Len(handlers) THEN [ok |-> FALSE, err |-> server_error, handler |-> 0]
    ELSE CASE matches(handlers[k], request) = "OK" ->
                [ok |-> TRUE, err |-> "", handler |-> k]
           [] matches(handlers[k], request) = "UriOnly" ->
                get_handler_from(handlers, request, k + 1, "MethodNotAllowed")
           [] OTHER -> get_handler_from(handlers, request, k + 1, server_error)

\* Router::get_handler
get_handler(handlers, request) == get_handler_from(handlers, request, 1, "NotFound")

\* Router::add_handler (&mut self): handlers are registered before the router
\* is shared to handle requests.
add_handler ==
    \E matcher \in Matchers :
        /\ router.result = <<>>
        /\ Len(router.handlers) < MaxHandlers
        /\ router' = [router EXCEPT !.handlers = Append(@, matcher)]
        /\ UNCHANGED <<filevars, server, cache, cache_last, cmp>>

\* Router::handle: the handler found answers 200, as the handlers of the
\* router's tests do; without a handler Router::error answers.
RouterHandles ==
    \E path \in RouterPaths, method \in RouterMethods :
        LET request == [path |-> path, method |-> method]
            found   == get_handler(router.handlers, request)
        IN  /\ router' = [router EXCEPT
                            !.request = Some(request),
                            !.result = Some([handler |-> found.handler,
                                             status |-> IF found.ok THEN 200
                                                        ELSE StatusOf(found.err)])]
            /\ UNCHANGED <<filevars, server, cache, cache_last, cmp>>

NextRouter == add_handler \/ RouterHandles

SpecRouter == Init /\ [][NextRouter]_vars

(***************************************************************************)
(* serve: the HTTP server from hyper::Server::bind to its return, with the *)
(* shutdown signal (router/src/lib.rs, src/kp.rs, handlers/exit/mod.rs).   *)
(***************************************************************************)
\* The requests of these runs: GET /exit, a request whose handler answers,
\* and PUT /files/.., whose handler unwraps the SocketAddr extension that
\* serve attaches to no request.
ServerRequests == {"exit", "get", "put"}

\* serve up to graceful.await.  With exit_channel = None serve makes the
\* channel and registers the ExitHandler, which owns the sender; with
\* Some(receiver) the caller keeps the sender and no ExitHandler exists.
ServerStart(exit_channel) ==
    [phase |-> "listening", cause |-> None, exit_channel |-> exit_channel,
     exit_handler |-> (exit_channel = None),
     sender |-> "held", receiver |-> "alive", conns |-> <<>>]

\* hyper accepts a connection and calls the service with its request.
Accept ==
    \E kind \in ServerRequests :
        /\ server.phase = "listening"
        /\ Len(server.conns) < MaxConns
        /\ server' = [server EXCEPT
                        !.conns = Append(@, [kind |-> kind, pc |-> "running", status |-> 0])]
        /\ UNCHANGED <<filevars, router, cache, cache_last, cmp>>

\* ExitHandler::handle: lock() the mutex, take() the sender and send(()); send
\* fails when the receiver is gone, and expect(PANIC_MSG) panics.  The guard
\* of the mutex lives to the end of the statement, so that panic poisons the
\* mutex, and lock().expect(PANIC_MSG) panics from then on.
ExitHandler_handle(srv) ==
    IF srv.sender = "poisoned" THEN [server |-> srv, pc |-> "panicked", status |-> 0]
    ELSE IF srv.sender # "held" THEN [server |-> srv, pc |-> "responded", status |-> 500]
    ELSE IF srv.receiver = "alive"
    THEN [server |-> [srv EXCEPT !.sender = "sent"], pc |-> "responded", status |-> 204]
    ELSE [server |-> [srv EXCEPT !.sender = "poisoned"], pc |-> "panicked", status |-> 0]

\* Router::handle of a request the server accepted.
HandleRequest(srv, kind) ==
    CASE kind = "exit" /\ srv.exit_handler -> ExitHandler_handle(srv)
      [] kind = "exit" /\ ~srv.exit_handler ->
            [server |-> srv, pc |-> "responded", status |-> StatusOf("NotFound")]
      [] kind = "get" -> [server |-> srv, pc |-> "responded", status |-> 200]
      [] kind = "put" -> [server |-> srv, pc |-> "panicked", status |-> 0]

\* The task of a request runs its handler to the end.
Complete(i) ==
    /\ server.phase \in {"listening", "draining"}
    /\ i \in DOMAIN server.conns
    /\ server.conns[i].pc = "running"
    /\ LET r == HandleRequest(server, server.conns[i].kind)
       IN  server' = [r.server EXCEPT !.conns[i].pc = r.pc, !.conns[i].status = r.status]
    /\ UNCHANGED <<filevars, router, cache, cache_last, cmp>>

\* The caller of serve(.., Some(receiver), ..) sends on its sender or drops it.
CallerEndsChannel ==
    \E end \in {"sent", "dropped"} :
        /\ server.phase = "listening"
        /\ ~server.exit_handler /\ server.sender = "held"
        /\ server' = [server EXCEPT !.sender = end]
        /\ UNCHANGED <<filevars, router, cache, cache_last, cmp>>

\* with_graceful_shutdown: shutdown_signal has returned, the server accepts no
\* more connections; the future of shutdown_signal, and the receiver in it,
\* is dropped.
Shutdown(cause) ==
    /\ server.phase = "listening"
    /\ server' = [server EXCEPT !.phase = "draining", !.cause = Some(cause),
                                !.receiver = "dropped"]
    /\ UNCHANGED <<filevars, router, cache, cache_last, cmp>>

\* shutdown_signal: select! over ctrl_c and term: the process gets SIGINT or
\* SIGTERM.
SignalFires == \E signal \in {"SIGINT", "SIGTERM"} : Shutdown(signal)

\* shutdown_signal: select! over exit_channel: the receiver resolves once the
\* sender has sent or is dropped.
ExitChannelFires ==
    /\ server.sender \in {"sent", "dropped"}
    /\ Shutdown("exit")

\* graceful.await returns once every connection is finished; serve returns.
ServeReturns ==
    /\ server.phase = "draining"
    /\ \A i \in DOMAIN server.conns : server.conns[i].pc # "running"
    /\ server' = [server EXCEPT !.phase = "returned"]
    /\ UNCHANGED <<filevars, router, cache, cache_last, cmp>>

InitShutdown ==
    /\ files = <<>>
    /\ history = {}
    /\ clock = 0
    /\ last = NoCall
    /\ held = [id \in IDs |-> None]
    /\ touched = {}
    /\ extension = None
    /\ log_level = "Warn"
    /\ mutex = None
    /\ poisoned = FALSE
    /\ reqs = <<>>
    /\ lockOrder = <<>>
    /\ router = NoRouter
    /\ \E exit_channel \in {None, Some("receiver")} : server = ServerStart(exit_channel)
    /\ cache = <<>>
    /\ cache_last = NoCacheCall
    /\ cmp = NoComparison

NextShutdown ==
    \/ Accept
    \/ \E i \in 1 .. MaxConns : Complete(i)
    \/ CallerEndsChannel
    \/ SignalFires
    \/ ExitChannelFires
    \/ ServeReturns

\* The runtime runs every task that can run: a handler runs to its end, the
\* resolved receiver wakes shutdown_signal, the drained server returns.
\* Signals and connections come or do not come.
SpecShutdown ==
    /\ InitShutdown
    /\ [][NextShutdown]_vars
    /\ \A i \in 1 .. MaxConns : WF_vars(Complete(i))
    /\ WF_vars(ExitChannelFires)
    /\ WF_vars(ServeReturns)

(***************************************************************************)
(* CacheDb: the table FILES of the caching node (cache/src/db.rs).         *)
(***************************************************************************)
\* The columns LAST_SYNCED_VERSION and LAST_SYNCED_TIMESTAMP hold None for
\* NULL and Some(version), or the RFC 3339 text, otherwise.
\* SyncInformation: (last_synced_version, last_synced_timestamp)
SyncInformations == {[last_synced_version |-> v, last_synced_timestamp |-> t] : v \in {0, 1}, t \in {0, 1}}

\* SQL_UPDATE_SYNCHRO: insert, on conflict update every column.
SQL_UPDATE_SYNCHRO(table, id, hash, version, timestamp_str, file) ==
    LET row == [hash |-> hash, is_synced |-> TRUE, last_synced_version |-> Some(version),
                last_synced_timestamp |-> timestamp_str, file |-> file]
    IN  [table |-> [k \in (DOMAIN table) \cup {id} |-> IF k = id THEN row ELSE table[k]],
         rows |-> 1]

\* SQL_UPDATE_NOT_SYNCHRO: insert with IS_SYNCED false and both LAST_SYNCED
\* columns null; on conflict `set HASH=excluded.HASH, IS_SYNCED=true,
\* FILE=excluded.FILE`, the LAST_SYNCED columns being left as they are.
SQL_UPDATE_NOT_SYNCHRO(table, id, hash, file) ==
    LET row == IF id \in DOMAIN table
               THEN [table[id] EXCEPT !.hash = hash, !.is_synced = TRUE, !.file = file]
               ELSE [hash |-> hash, is_synced |-> FALSE, last_synced_version |-> None,
                     last_synced_timestamp |-> None, file |-> file]
    IN  [table |-> [k \in (DOMAIN table) \cup {id} |-> IF k = id THEN row ELSE table[k]],
         rows |-> 1]

\* SQL_DELETE_SYNCHRO: an update of the row, if there is one.
SQL_DELETE_SYNCHRO(table, id, version, timestamp_str) ==
    IF id \in DOMAIN table
    THEN [table |-> [table EXCEPT ![id] =
                        [hash |-> Null, is_synced |-> TRUE, last_synced_version |-> Some(version),
                         last_synced_timestamp |-> timestamp_str, file |-> Null]],
          rows |-> 1]
    ELSE [table |-> table, rows |-> 0]

\* Mutant of SQL_DELETE_NOT_SYNCHRO: the content is kept.
SQL_DELETE_NOT_SYNCHRO_keeps_file(table, id) ==
    IF id \in DOMAIN table
    THEN [table |-> [table EXCEPT ![id].hash = Null, ![id].is_synced = FALSE],
          rows |-> 1]
    ELSE [table |-> table, rows |-> 0]

\* SQL_DELETE_NOT_SYNCHRO: `set HASH=null, IS_SYNCED=false, FILE=null`, the
\* LAST_SYNCED columns being left as they are.
SQL_DELETE_NOT_SYNCHRO(table, id) ==
    IF id \in DOMAIN table
    THEN [table |-> [table EXCEPT ![id].hash = Null, ![id].is_synced = FALSE,
                                  ![id].file = Null],
          rows |-> 1]
    ELSE [table |-> table, rows |-> 0]

\* map_sqlite_result: every error becomes HandlerError(500).
map_sqlite_result(error) == "HandlerError(500)"

\* CacheDb::save
CacheDb_save(table, id, sync_information, file) ==
    LET hash == digest(file)
        r == IF sync_information # None
             THEN SQL_UPDATE_SYNCHRO(table, id, hash,
                        sync_information[1].last_synced_version,
                        to_rfc3339(sync_information[1].last_synced_timestamp), file)
             ELSE SQL_UPDATE_NOT_SYNCHRO(table, id, hash, file)
    IN  IF r.rows = 0 THEN [ok |-> FALSE, err |-> "HandlerError(500)", table |-> r.table]
        ELSE [ok |-> TRUE, err |-> "", table |-> r.table]

\* CacheDb::delete
CacheDb_delete(table, id, sync_information) ==
    LET r == IF sync_information # None
             THEN SQL_DELETE_SYNCHRO(table, id,
                        sync_information[1].last_synced_version,
                        to_rfc3339(sync_information[1].last_synced_timestamp))
             ELSE SQL_DELETE_NOT_SYNCHRO(table, id)
    IN  IF r.rows = 0 THEN [ok |-> FALSE, err |-> "NotFound", table |-> r.table]
        ELSE [ok |-> TRUE, err |-> "", table |-> r.table]

\* CacheDb::get_inner: query_row fails with QueryReturnedNoRows without a row;
\* `hash: row.get(0)?` reads a String, which a NULL is not.
CacheDb_get_inner(table, id) ==
    IF id \notin DOMAIN table THEN [ok |-> FALSE, err |-> "QueryReturnedNoRows"]
    ELSE LET row == table[id]
         IN  IF row.hash = Null THEN [ok |-> FALSE, err |-> "InvalidColumnType"]
             ELSE [ok |-> TRUE, err |-> "",
                   file |-> [hash |-> row.hash, is_synced |-> row.is_synced,
                             last_synced_version |-> row.last_synced_version,
                             last_synced_timestamp |->
                                IF row.last_synced_timestamp = None THEN None
                                ELSE Some(decode_timestamp(row.last_synced_timestamp)),
                             file |-> IF row.file = Null THEN None ELSE Some(row.file)]]

\* CacheDb::get
CacheDb_get(table, id) ==
    LET r == CacheDb_get_inner(table, id)
    IN  IF r.ok THEN r ELSE [ok |-> FALSE, err |-> map_sqlite_result(r.err)]

\* The sync_information a caller passes.
SyncArguments == {None} \cup {Some(sync) : sync \in SyncInformations}

\* cache_db.save(path, name, sync_information, &file)
CacheSave ==
    \E id \in IDs, sync \in SyncArguments, file \in Data :
        LET r == CacheDb_save(cache, id, sync, file)
        IN  /\ cache' = r.table
            /\ cache_last' = [op |-> "save", id |-> id, sync |-> sync, file |-> file,
                              ok |-> r.ok, err |-> r.err]
            /\ UNCHANGED <<filevars, router, server, cmp>>

\* cache_db.delete(path, name, sync_information)
CacheDelete ==
    \E id \in IDs, sync \in SyncArguments :
        LET r == CacheDb_delete(cache, id, sync)
        IN  /\ cache' = r.table
            /\ cache_last' = [op |-> "delete", id |-> id, sync |-> sync, file |-> Null,
                              ok |-> r.ok, err |-> r.err]
            /\ UNCHANGED <<filevars, router, server, cmp>>

\* cache_db.get(path, name)
CacheGet ==
    \E id \in IDs :
        LET r == CacheDb_get(cache, id)
        IN  /\ cache_last' = [op |-> "get", id |-> id, sync |-> None, file |-> Null,
                              ok |-> r.ok, err |-> r.err,
                              result |-> IF r.ok THEN Some(r.file) ELSE None]
            /\ UNCHANGED <<filevars, router, server, cache, cmp>>

NextCache == CacheSave \/ CacheDelete \/ CacheGet

\* CacheDb::new on an empty directory, then calls one after the other.
SpecCache == Init /\ [][NextCache]_vars

(***************************************************************************)
(* compare_logs: which of two logs of a file is ahead                      *)
(* (cache/src/logs_comparator.rs).                                         *)
(***************************************************************************)
\* chrono::Duration::seconds(10) of explode_event; instants are in seconds.
DeletionDelay == 10

LogHashes == {"HASH_A", "HASH_B", "HASH_C"}

\* The variants of FileLogEntryType that carry a hash, and the others.
HashEntryTypes == {"Creation", "Modification", "MoveFrom"}

OtherEntryTypes == {"Deletion", "MoveTo"}

\* The instants of the last entry of a log; the entries before it are
\* written at 0 seconds.
LogInstants == {0, DeletionDelay, 2 * DeletionDelay}

\* FileLogEntry without its instant; hash is Null where the variant has none.
LogEntryTypes ==
    {[type |-> t, hash |-> h] : t \in HashEntryTypes, h \in LogHashes}
    \cup {[type |-> t, hash |-> Null] : t \in OtherEntryTypes}

\* The sequences of entries FilesDB writes: Creation or MoveFrom first and
\* right after a Deletion or a MoveTo, and nowhere else.
IsFileHistory(f) ==
    \A k \in DOMAIN f :
        (f[k].type \in {"Creation", "MoveFrom"})
            <=> (k = 1 \/ f[k - 1].type \in OtherEntryTypes)

FileLogsOfLen(n) ==
    IF n = 0 THEN {<<>>}
    ELSE {[k \in 1 .. n |->
              [type |-> f[k].type, hash |-> f[k].hash,
               timestamp |-> IF k = n THEN ts ELSE 0]] :
            f \in {g \in [1 .. n -> LogEntryTypes] : IsFileHistory(g)},
            ts \in LogInstants}

\* Option<FileLog>: no log, or a log of up to max_len entries.
OptionFileLogsUpTo(max_len) ==
    {None} \cup {Some(log) : log \in UNION {FileLogsOfLen(n) : n \in 0 .. max_len}}

\* Option<FileLog>: no log, or a log of up to MaxLogLen entries.
OptionFileLogs == OptionFileLogsUpTo(MaxLogLen)

\* Mutant of LastUpdate: the first entry that carries a hash.
FirstUpdate(entries) ==
    LET with_hash == {k \in DOMAIN entries : entries[k].type \in HashEntryTypes}
    IN  IF with_hash = {} THEN 0 ELSE CHOOSE k \in with_hash : \A j \in with_hash : k <= j

\* The index of the last entry of the log that carries a hash, 0 without one:
\* log.entries.iter().rev().find(..) for the three variants with a hash.
LastUpdate(entries) ==
    LET with_hash == {k \in DOMAIN entries : entries[k].type \in HashEntryTypes}
    IN  IF with_hash = {} THEN 0 ELSE Max(with_hash)

\* get_last_event
get_last_event(log) ==
    IF log = None \/ log[1] = <<>> THEN [kind |-> "None"]
    ELSE LET entries == log[1]
             last_entry == entries[Len(entries)]
             datetime == last_entry.timestamp
             last_update == LastUpdate(entries)
         IN  IF last_entry.type \in HashEntryTypes
             THEN [kind |-> "Update", hash |-> last_entry.hash, datetime |-> datetime]
             ELSE IF last_update = 0 THEN [kind |-> "None"]
             ELSE [kind |-> "Deletion", hash |-> entries[last_update].hash,
                   datetime |-> datetime]

\* explode_event: the hash, and the instant, ten seconds later for a
\* Deletion; panic!() for None.  (checked_add_signed fails only at the end of
\* chrono's range of dates.)
explode_event(event) ==
    IF event.kind = "None" THEN <<"panic">>
    ELSE IF event.kind = "Deletion" THEN <<event.hash, event.datetime + DeletionDelay>>
    ELSE <<event.hash, event.datetime>>

\* is_hash_in_log
is_hash_in_log(hash_in, log) ==
    \E k \in DOMAIN log :
        log[k].type \in HashEntryTypes /\ log[k].hash = hash_in

\* Mutant of compare_hashes: the distant hash is looked up first.
compare_hashes_distant_first(last_local_hash, last_distant_hash, local_log, distant_log) ==
    IF local_log = None THEN "panic"
    ELSE IF is_hash_in_log(last_distant_hash, local_log[1]) THEN "LocalIsMoreRecent"
    ELSE IF distant_log = None THEN "panic"
    ELSE IF is_hash_in_log(last_local_hash, distant_log[1]) THEN "DistantIsMoreRecent"
    ELSE "Diverge"

\* compare_logs, for last events with different hashes; as_ref().unwrap()
\* of a log that is None panics.
compare_hashes(last_local_hash, last_distant_hash, local_log, distant_log) ==
    IF distant_log = None THEN "panic"
    ELSE IF is_hash_in_log(last_local_hash, distant_log[1]) THEN "DistantIsMoreRecent"
    ELSE IF local_log = None THEN "panic"
    ELSE IF is_hash_in_log(last_distant_hash, local_log[1]) THEN "LocalIsMoreRecent"
    ELSE "Diverge"

\* Mutant of compare_logs: the last events are not compared with None.
compare_logs_without_none(local_log, distant_log) ==
    LET last_local_event   == get_last_event(local_log)
        last_distant_event == get_last_event(distant_log)
        local   == explode_event(last_local_event)
        distant == explode_event(last_distant_event)
    IN  IF last_local_event = last_distant_event THEN "Equal"
        ELSE IF local = <<"panic">> \/ distant = <<"panic">> THEN "panic"
        ELSE IF local[1] = distant[1]
             THEN (IF local[2] < distant[2] THEN "DistantIsMoreRecent"
                   ELSE "LocalIsMoreRecent")
        ELSE compare_hashes(local[1], distant[1], local_log, distant_log)

\* compare_logs
compare_logs(local_log, distant_log) ==
    LET last_local_event   == get_last_event(local_log)
        last_distant_event == get_last_event(distant_log)
        local   == explode_event(last_local_event)
        distant == explode_event(last_distant_event)
    IN  IF last_local_event = last_distant_event THEN "Equal"
        ELSE IF last_local_event.kind = "None" THEN "DistantIsMoreRecent"
        ELSE IF last_distant_event.kind = "None" THEN "LocalIsMoreRecent"
        ELSE IF local = <<"panic">> \/ distant = <<"panic">> THEN "panic"
        ELSE IF local[1] = distant[1]
             THEN (IF local[2] < distant[2] THEN "DistantIsMoreRecent"
                   ELSE "LocalIsMoreRecent")
        ELSE compare_hashes(local[1], distant[1], local_log, distant_log)

\* compare_logs(&local, &distant), and the same call with the two logs
\* exchanged.
CompareLogs ==
    /\ ~cmp.called
    /\ cmp' = [cmp EXCEPT !.called = TRUE,
                          !.result = compare_logs(cmp.local, cmp.distant),
                          !.exchanged = compare_logs(cmp.distant, cmp.local)]
    /\ UNCHANGED <<filevars, router, server, cache, cache_last>>

\* Two logs of a file, one of the caching node and one of the server, out of
\* the given pairs.
InitComparing(pairs) ==
    /\ files = <<>>
    /\ history = {}
    /\ clock = 0
    /\ last = NoCall
    /\ held = [id \in IDs |-> None]
    /\ touched = {}
    /\ extension = None
    /\ log_level = "Warn"
    /\ mutex = None
    /\ poisoned = FALSE
    /\ reqs = <<>>
    /\ lockOrder = <<>>
    /\ router = NoRouter
    /\ server = NoServer
    /\ cache = <<>>
    /\ cache_last = NoCacheCall
    /\ \E pair \in pairs :
            cmp = [called |-> FALSE, local |-> pair[1], distant |-> pair[2],
                   result |-> "", exchanged |-> ""]

InitCompare == InitComparing(OptionFileLogs \X OptionFileLogs)

\* A log of up to MaxLongLogLen entries against one of up to MaxShortLogLen.
InitLastEvent ==
    InitComparing(OptionFileLogsUpTo(MaxLongLogLen) \X OptionFileLogsUpTo(MaxShortLogLen))

NextCompare == CompareLogs

SpecCompare == InitCompare /\ [][NextCompare]_vars

SpecLastEvent == InitLastEvent /\ [][NextCompare]_vars

\* Any sequence of up to max_len entries, whether or not FilesDB can write
\* it, over two hashes and with every entry at 0 seconds.
AnyFileLogsUpTo(max_len) ==
    UNION {[1 .. n -> {[type |-> e.type, hash |-> e.hash, timestamp |-> 0] :
                          e \in {t \in LogEntryTypes : t.hash # "HASH_C"}}] :
            n \in 0 .. max_len}

\* An absent log, an empty log or any sequence of entries, on both sides.
InitAnyLogs ==
    InitComparing(({None} \cup {Some(log) : log \in AnyFileLogsUpTo(MaxAnyLogLen)})
                  \X ({None} \cup {Some(log) : log \in AnyFileLogsUpTo(MaxAnyLogLen)}))

SpecAnyLogs == InitAnyLogs /\ [][NextCompare]_vars

\* The entries the server appends to a log: up to MaxAppended entries, each
\* at one of the instants.
AppendedEntries ==
    UNION {[1 .. n -> {[type |-> e.type, hash |-> e.hash, timestamp |-> ts] :
                          e \in LogEntryTypes, ts \in LogInstants}] :
            n \in 1 .. MaxAppended}

\* The instants of a log never decrease (each is the clock of the server at
\* the time of the entry).
InstantsNeverDecrease(log) ==
    \A k \in 1 .. Len(log) - 1 : log[k].timestamp <= log[k + 1].timestamp

\* The log of the cache is the log the server had earlier; the server has
\* appended to it since.
InitExtended ==
    InitComparing({<<Some(log), Some(log \o appended)>> :
                     <<log, appended>> \in
                        {pair \in (UNION {FileLogsOfLen(n) : n \in 0 .. MaxLogLen}) \X AppendedEntries :
                            /\ IsFileHistory(pair[1] \o pair[2])
                            /\ InstantsNeverDecrease(pair[1] \o pair[2])}})

SpecExtended == InitExtended /\ [][NextCompare]_vars

(***************************************************************************)
(* Calls on FilesDB while time passes: chrono::Utc::now() returns a later   *)
(* instant each time the clock has moved on between two readings.           *)
(***************************************************************************)
\* Time passes between two calls.
Tick ==
    /\ clock < MaxClock
    /\ clock' = clock + 1
    /\ UNCHANGED <<files, history, last, held, touched, httpvars>>

\* The instants a second reading of the clock can return after a first
\* reading of `now` in the same call.
SecondReading(now) == {t \in {now, now + 1} : t <= MaxClock}

\* db.save: `timestamp = Utc::now()` is the one reading of the call.  One
\* content is saved: the timestamps do not depend on it.
TimedSave ==
    \E id \in IDs, data \in {"d1"} :
    \E expected \in {None} \cup {Some(v) : v \in ExpectedVersions(id)} :
        LET r == save(Db(files, history), id[1], id[2], data, expected, Address,
                      clock, 0)
        IN  /\ Commit(r, MaxClockRows)
            /\ Track(Call("save", id, <<"", "">>, expected, data, r))
            /\ UNCHANGED <<clock, httpvars>>

\* db.delete: `timestamp = Utc::now()` is the one reading of the call.
TimedDelete ==
    \E id \in IDs :
    \E expected \in ExpectedVersions(id) :
        LET r == delete(Db(files, history), id[1], id[2], expected, Address,
                        clock, 0)
        IN  /\ Commit(r, MaxClockRows)
            /\ Track(Call("delete", id, <<"", "">>, Some(expected), Null, r))
            /\ UNCHANGED <<clock, httpvars>>

\* db.move_to: `timestamp = Utc::now()` and then
\* `timestamp_str = Utc::now().to_rfc3339()`, two readings of the clock.
TimedMoveTo ==
    \E id \in IDs, to \in IDs :
    \E expected \in ExpectedVersions(id), now2 \in SecondReading(clock) :
        LET r == move_to(Db(files, history), id[1], id[2], expected, to[1], to[2],
                         Address, clock, now2, 0)
        IN  /\ Commit(r, MaxClockRows)
            /\ Track(Call("move_to", id, to, Some(expected), Null, r))
            /\ clock' = now2
            /\ UNCHANGED httpvars

NextClock == Tick \/ TimedSave \/ TimedDelete \/ TimedMoveTo

SpecClock == Init /\ [][NextClock]_vars

(***************************************************************************)
(* Calls on FilesDB by a caller that passes the version it last got, each  *)
(* call that changed the repository followed by a later instant.           *)
(***************************************************************************)
MoveIDs == IDs \cup {<<"q", "a">>}

\* The version a caller that knows the current state passes to save.
KnownVersion(id) == IF Live(id) THEN Some(files[id].version) ELSE None

\* The call is made at the instant `clock`; the call after one that changed
\* the repository comes later.
Later(call, r, max_rows) ==
    /\ Commit(r, max_rows)
    /\ last' = call
    /\ clock' = IF r.ok THEN clock + 1 ELSE clock
    /\ UNCHANGED <<held, touched, httpvars>>

\* db.save(path, name, &data, expected, &address)
ThenSave(ids, contents, max_rows) ==
    \E id \in ids, data \in contents :
        LET r == save(Db(files, history), id[1], id[2], data, KnownVersion(id),
                      Address, clock, 0)
        IN  Later(Call("save", id, <<"", "">>, KnownVersion(id), data, r), r, max_rows)

\* db.delete(path, name, expected, &address)
ThenDelete(ids, max_rows) ==
    \E id \in DOMAIN files :
        LET r == delete(Db(files, history), id[1], id[2], files[id].version,
                        Address, clock, 0)
        IN  Later(Call("delete", id, <<"", "">>, KnownVersion(id), Null, r), r, max_rows)

\* db.move_to(path_from, name_from, expected, path_to, name_to, &address)
ThenMoveTo(ids, max_rows) ==
    \E id \in DOMAIN files, to \in ids :
        LET r == move_to(Db(files, history), id[1], id[2], files[id].version,
                         to[1], to[2], Address, clock, clock, 0)
        IN  Later(Call("move_to", id, to, KnownVersion(id), Null, r), r, max_rows)

\* Two identities, moved back and forth, with one content.
NextMoves ==
    \/ ThenSave(IDs, {"d1"}, MaxMoveRows)
    \/ ThenDelete(IDs, MaxMoveRows)
    \/ ThenMoveTo(IDs, MaxMoveRows)

SpecMoves == Init /\ [][NextMoves]_vars

\* Three identities, so that a move leaves one of them aside.
NextFrame ==
    \/ ThenSave(MoveIDs, Data, MaxFrameRows)
    \/ ThenDelete(MoveIDs, MaxFrameRows)
    \/ ThenMoveTo(MoveIDs, MaxFrameRows)

SpecFrame == Init /\ [][NextFrame]_vars

(***************************************************************************)
(* Properties of FilesDB.                                                  *)
(***************************************************************************)
\* The rows of an identity before the step.
Rows(id) == HistoryRows(Db(files, history), id[1], id[2])

\* The current version of an identity before the step, as an Option.
Current(id) == IF Live(id) THEN Some(files[id].version) ELSE None

\* The version the next line of an identity's history gets when the identity
\* is not live.
NextHistoryVersion(id) ==
    IF Rows(id) = {} THEN 0 ELSE Max({r.version : r \in Rows(id)}) + 1

LiveOperations == {"CREATION", "UPDATE", "MOVE_FROM"}

Unchanged == files' = files /\ history' = history

\* C1: save succeeds if and only if the expected version is the current
\* version of a live identity, or is absent for an identity that is not live;
\* otherwise it fails with 412, and so does a successful save that is repeated
\* with the same expected version.
C1_SaveSucceedsIffVersionMatches ==
    [][last'.op = "save" =>
        /\ last'.ok <=> (last'.expected = Current(last'.id))
        /\ ~last'.ok => last'.err = "HandlerError(412)"
        /\ (/\ last.op = "save"
            /\ last.ok
            /\ last.id = last'.id
            /\ last.expected = last'.expected) => last'.err = "HandlerError(412)"
      ]_vars

\* A save that repeats the expected version of the update before it was refused.
C1_Witness ==
    /\ last.op = "save"
    /\ last.err = "HandlerError(412)"
    /\ Live(last.id)
    /\ last.expected = Some(files[last.id].version - 1)
    /\ Hist(last.id)[Len(Hist(last.id))].operation = "UPDATE"

\* C2: an identity is live if and only if its history is not empty and ends
\* on Creation, Update or MoveFrom; the current version of a live identity is
\* the largest version of its history.
C2_LiveIffHistoryEndsLive ==
    \A id \in IDs :
        LET h == Hist(id)
        IN  /\ Live(id) <=> (h # <<>> /\ h[Len(h)].operation \in LiveOperations)
            /\ Live(id) => files[id].version = Max({r.version : r \in Rows(id)})

\* One identity is live after several changes, another has a history and is
\* not live.
C2_Witness ==
    \E a \in IDs, b \in IDs :
        /\ Live(a) /\ Len(Hist(a)) >= 2
        /\ ~Live(b) /\ Hist(b) # <<>>

\* C3: the versions of a history, read in order, are 0, 1, 2, ...: no gap, no
\* duplicate, no reset after a deletion, a move or a re-creation.
C3_HistoryVersionsAreConsecutive ==
    \A id \in IDs : \A i \in 1 .. Len(Hist(id)) : Hist(id)[i].version = i - 1

\* An identity was re-created or moved into after it had been deleted or moved.
C3_Witness ==
    \E id \in IDs :
        /\ Len(Hist(id)) >= 3
        /\ Hist(id)[2].operation \in {"DELETION", "MOVE_TO"}
        /\ Hist(id)[3].operation \in {"CREATION", "MOVE_FROM"}

\* C4: a successful save appends one line, Update with the current version
\* plus one on a live identity, Creation with the history's last version plus
\* one (or 0) otherwise, and the current row afterwards holds the returned
\* version, the new content and its hash.
C4_SaveAppendsAndUpserts ==
    [][(last'.op = "save" /\ last'.ok) =>
        LET id == last'.id
            v  == IF Live(id) THEN files[id].version + 1 ELSE NextHistoryVersion(id)
        IN  /\ history \subseteq history'
            /\ Cardinality(history' \ history) = 1
            /\ \A r \in history' \ history :
                /\ r.path = id[1] /\ r.name = id[2]
                /\ r.version = v
                /\ r.operation = IF Live(id) THEN "UPDATE" ELSE "CREATION"
                /\ r.hash = digest(last'.data)
                /\ r.file = last'.data
            /\ last'.version = v
            /\ id \in DOMAIN files'
            /\ files'[id].version = v
            /\ files'[id].file = last'.data
            /\ files'[id].hash = digest(last'.data)
      ]_vars

\* An identity that had been deleted or moved was created again by a save.
C4_Witness ==
    /\ last.op = "save" /\ last.ok
    /\ last.version >= 2
    /\ Hist(last.id)[Len(Hist(last.id))].operation = "CREATION"

\* C5: delete fails with 404 on an identity that is not live, whatever the
\* expected version; on a live identity it fails with 412 unless the expected
\* version is the current one v, and then it removes the current row, appends
\* one Deletion line with version v + 1 and returns v + 1.
C5_DeletePreconditionsAndEffect ==
    [][last'.op = "delete" =>
        LET id == last'.id
        IN  IF ~Live(id) THEN ~last'.ok /\ last'.err = "HandlerError(404)"
            ELSE IF last'.expected # Some(files[id].version)
                 THEN ~last'.ok /\ last'.err = "HandlerError(412)"
            ELSE /\ last'.ok
                 /\ last'.version = files[id].version + 1
                 /\ DOMAIN files' = DOMAIN files \ {id}
                 /\ history \subseteq history'
                 /\ Cardinality(history' \ history) = 1
                 /\ \A r \in history' \ history :
                        /\ r.path = id[1] /\ r.name = id[2]
                        /\ r.operation = "DELETION"
                        /\ r.version = files[id].version + 1
      ]_vars

\* A second delete, with the version the first one was given, got 404.
C5_Witness ==
    /\ last.op = "delete"
    /\ last.err = "HandlerError(404)"
    /\ Hist(last.id) # <<>>
    /\ Hist(last.id)[Len(Hist(last.id))].operation = "DELETION"
    /\ last.expected = Some(Hist(last.id)[Len(Hist(last.id))].version - 1)

\* The four changes of a successful move from src to dst.
MoveEffect(src, dst) ==
    LET v      == files[src].version
        v_to   == NextHistoryVersion(dst)
        moveTo == {r \in history' \ history : r.path = src[1] /\ r.name = src[2]}
        moveFrom == {r \in history' \ history : r.path = dst[1] /\ r.name = dst[2]}
    IN  /\ DOMAIN files' = (DOMAIN files \ {src}) \cup {dst}
        /\ history \subseteq history'
        /\ history' \ history = moveTo \cup moveFrom
        /\ Cardinality(moveTo) = 1
        /\ \A r \in moveTo :
            /\ r.operation = "MOVE_TO"
            /\ r.version = v + 1
            /\ r.old_or_new_path = path_join(dst[1], dst[2])
        /\ Cardinality(moveFrom) = 1
        /\ \A r \in moveFrom :
            /\ r.operation = "MOVE_FROM"
            /\ r.version = v_to
            /\ r.hash = files[src].hash
            /\ r.old_or_new_path = path_join(src[1], src[2])
        /\ files'[dst].version = v_to
        /\ files'[dst].file = files[src].file
        /\ files'[dst].hash = files[src].hash

\* C6: a successful move removes the source's current row, appends MoveTo at
\* the source's version plus one, appends MoveFrom at the destination's last
\* history version plus one (or 0), and gives the destination the source's
\* content and hash at that version, all together; a failed move changes
\* nothing.
C6_MoveIsAtomic ==
    [][last'.op = "move_to" =>
        IF last'.ok THEN MoveEffect(last'.id, last'.to) ELSE Unchanged
      ]_vars

\* A file that had been updated was moved.
C6_Witness ==
    /\ last.op = "move_to" /\ last.ok
    /\ Len(Hist(last.id)) >= 3
    /\ Hist(last.id)[2].operation = "UPDATE"
    /\ Live(last.to)

\* C7: a move between two identities fails with 404 when the source is not
\* live, with 412 when the source is live and the expected version is not its
\* current one, and with 412 when the destination is live; nothing changes
\* then.  A move into a destination that has a history and is not live
\* succeeds, and the destination's next line is MoveFrom.
C7_MovePreconditions ==
    [][(last'.op = "move_to" /\ last'.id # last'.to) =>
        LET src == last'.id
            dst == last'.to
        IN  IF ~Live(src)
            THEN last'.err = "HandlerError(404)" /\ Unchanged
            ELSE IF last'.expected # Some(files[src].version)
            THEN last'.err = "HandlerError(412)" /\ Unchanged
            ELSE IF Live(dst)
            THEN last'.err = "HandlerError(412)" /\ Unchanged
            ELSE /\ last'.ok
                 /\ \A r \in history' \ history :
                        (r.path = dst[1] /\ r.name = dst[2]) =>
                            /\ r.operation = "MOVE_FROM"
                            /\ r.version = NextHistoryVersion(dst)
                 /\ \E r \in history' \ history : r.path = dst[1] /\ r.name = dst[2]
      ]_vars

\* C7 as stated, for every move: a move whose source is not live fails with
\* 404, also when its destination is its source.
C7_MoveOfMissingSourceIs404 ==
    [][(last'.op = "move_to" /\ ~Live(last'.id)) =>
        last'.err = "HandlerError(404)" /\ Unchanged]_vars

\* A file was moved to an identity that had existed before.
C7_Witness ==
    /\ last.op = "move_to" /\ last.ok
    /\ Len(Hist(last.to)) >= 2
    /\ Hist(last.to)[Len(Hist(last.to))].operation = "MOVE_FROM"
    /\ Hist(last.to)[Len(Hist(last.to)) - 1].operation \in {"DELETION", "MOVE_TO"}

\* C8: a call that returns an error, 400, 404, 412 or 500, leaves both tables
\* as they were.
C8_FailedCallChangesNothing ==
    [][~last'.ok => Unchanged]_vars

\* A move failed with a storage error.
C8_Witness ==
    /\ last.op = "move_to"
    /\ last.err = "HandlerError(500)"
    /\ Live(last.id)
    /\ ~Live(last.to)

(***************************************************************************)
(* Properties of the handlers.                                             *)
(***************************************************************************)
\* The identity a request addresses.
Identity(i) == <<reqs[i].uri[2], reqs[i].uri[3]>>

Succeeded(i) == reqs[i].pc = "done" /\ reqs[i].response.status \in {201, 204}

Finished(i) == reqs[i].pc \in {"done", "panic"}

\* The version a response reports in its etag header.
ReturnedVersion(i) == get_version_info_from_headers(reqs[i].response.etag)[1]

Concurrent(i, j) == i \in reqs[j].overlaps \/ j \in reqs[i].overlaps

\* C9: the successful PUT, DELETE and MOVE requests on one identity return
\* versions that strictly increase in the order in which they took the lock;
\* and of two concurrent requests that carry the same etag for the same
\* identity, when one succeeds the other is answered 412 or 404.
C9_VersionsFollowLockOrder ==
    /\ \A p, q \in DOMAIN lockOrder :
        LET i == lockOrder[p]
            j == lockOrder[q]
        IN  (p < q /\ Succeeded(i) /\ Succeeded(j) /\ Identity(i) = Identity(j))
                => ReturnedVersion(i) < ReturnedVersion(j)
    /\ \A i, j \in DOMAIN reqs :
        (/\ i # j
         /\ Concurrent(i, j)
         /\ Identity(i) = Identity(j)
         /\ reqs[i].etag # None
         /\ reqs[i].etag = reqs[j].etag
         /\ Finished(i) /\ Finished(j)
         /\ Succeeded(i))
            => /\ reqs[j].pc = "done"
               /\ reqs[j].response.status \in {404, 412}

\* The step in which the handler of request i calls FilesDB and answers.
Handles(i) == reqs[i].pc = "locked" /\ reqs'[i].pc = "done"

C11_MoveReturnsSourceVersion ==
    [][(last'.op = "move_to" /\ last'.ok) =>
        \E r \in history' :
            /\ <<r.path, r.name>> = last'.id
            /\ r.version = last'.version]_vars

\* C12: get on an identity that the calls so far left live returns the bytes
\* of the last successful save on it, or the bytes moved to it by the last
\* successful move, with the version that operation returned; get on any
\* other identity fails with 404.
C12_GetReturnsLastSaved ==
    [][last'.op \in {"get", "get_no_content"} =>
        LET id == last'.id
        IN  IF held[id] = None
            THEN ~last'.ok /\ last'.err = "HandlerError(404)"
            ELSE /\ last'.ok
                 /\ last'.version = held[id][1][2]
                 /\ last'.op = "get" => last'.data = held[id][1][1]]_vars

\* get returned the bytes of a file that was saved twice under another name
\* and then moved.
C12_Witness ==
    /\ last.op = "get" /\ last.ok
    /\ last.data = "d2"
    /\ Hist(last.id)[Len(Hist(last.id))].operation = "MOVE_FROM"
    /\ \E r \in history : r.operation = "UPDATE"

IsPrefix(s, t) == Len(s) <= Len(t) /\ SubSeq(t, 1, Len(s)) = s

\* The history of an identity after the step.
HistAfter(id) == SQL_SELECT_HISTORY(Db(files', history'), id[1], id[2])

\* C13: in every call of save, delete and move_to, failed ones included, the
\* history of every identity before the call is a prefix of its history after
\* it; a successful delete adds just a Deletion line to the identity, and a
\* successful move just a MoveTo line to the source.
C13_HistoryIsAppendOnly ==
    [][/\ \A id \in IDs : IsPrefix(Hist(id), HistAfter(id))
       /\ (last'.ok /\ last'.op \in {"delete", "move_to"}) =>
            /\ Len(HistAfter(last'.id)) = Len(Hist(last'.id)) + 1
            /\ HistAfter(last'.id)[Len(HistAfter(last'.id))].operation =
                    (IF last'.op = "delete" THEN "DELETION" ELSE "MOVE_TO")
      ]_vars

\* A file was moved away: its history kept its Creation line and ends with
\* the MoveTo line.
C13_Witness ==
    /\ last.op = "move_to" /\ last.ok
    /\ Len(Hist(last.id)) = 2
    /\ Hist(last.id)[1].operation = "CREATION"
    /\ Hist(last.id)[2].operation = "MOVE_TO"

DeadOperations == {"DELETION", "MOVE_TO"}

\* C14: the history of every identity starts with Creation or MoveFrom; a
\* later Creation or MoveFrom comes right after a Deletion or a MoveTo; every
\* Update, Deletion and MoveTo comes right after a Creation, an Update or a
\* MoveFrom.
C14_HistoryFollowsLifecycle ==
    \A id \in IDs :
        LET h == Hist(id)
        IN  \A k \in 1 .. Len(h) :
                IF h[k].operation \in {"CREATION", "MOVE_FROM"}
                THEN k = 1 \/ h[k - 1].operation \in DeadOperations
                ELSE /\ h[k].operation \in {"UPDATE", "DELETION", "MOVE_TO"}
                     /\ k > 1
                     /\ h[k - 1].operation \in LiveOperations

\* An identity was created, moved away, created again and updated.
C14_Witness ==
    \E id \in IDs :
        /\ Len(Hist(id)) = 4
        /\ Hist(id)[1].operation = "CREATION"
        /\ Hist(id)[2].operation = "MOVE_TO"
        /\ Hist(id)[3].operation = "CREATION"
        /\ Hist(id)[4].operation = "UPDATE"

\* C16: a move_to whose destination is its source fails with InvalidRequest,
\* answered 400, and changes nothing, whether the identity is live or not and
\* whatever version is expected.
C16_MoveOntoItselfIsInvalid ==
    [][(last'.op = "move_to" /\ last'.id = last'.to) =>
        /\ ~last'.ok
        /\ last'.err = "InvalidRequest"
        /\ StatusOf(last'.err) = 400
        /\ Unchanged]_vars

\* A live identity was moved onto itself with its current version.
C16_Witness ==
    /\ last.op = "move_to"
    /\ last.id = last.to
    /\ Live(last.id)
    /\ last.expected = Some(files[last.id].version)
    /\ last.err = "InvalidRequest"

\* The variant get_history gives for an OPERATION.
VariantOf(operation) ==
    CASE operation = "CREATION"  -> "Creation"
      [] operation = "UPDATE"    -> "Update"
      [] operation = "DELETION"  -> "Deletion"
      [] operation = "MOVE_TO"   -> "MoveTo"
      [] operation = "MOVE_FROM" -> "MoveFrom"

\* C15: get_history fails with NotFound exactly for the identities that no
\* successful save and no successful move, as source or destination, has
\* named, which are the identities without history line; for every other
\* identity, live or not, it returns one entry per history line, in ascending
\* order of version.
C15_GetHistoryNotFoundIffEmpty ==
    [][last'.op = "get_history" =>
        LET id == last'.id
            es == last'.entries
        IN  /\ (id \in touched) <=> (Rows(id) # {})
            /\ IF id \notin touched
               THEN ~last'.ok /\ last'.err = "NotFound" /\ StatusOf(last'.err) = 404
               ELSE /\ last'.ok
                    /\ Len(es) = Cardinality(Rows(id))
                    /\ \A k \in 1 .. Len(es) :
                        /\ es[k].entry.version = Hist(id)[k].version
                        /\ es[k].entry.type = VariantOf(Hist(id)[k].operation)
                    /\ \A j, k \in 1 .. Len(es) :
                        j < k => es[j].entry.version < es[k].entry.version
      ]_vars

\* The history of an identity that was created and deleted was read.
C15_Witness ==
    /\ last.op = "get_history" /\ last.ok
    /\ ~Live(last.id)
    /\ Len(last.entries) = 2
    /\ last.entries[2].entry.type = "Deletion"

(***************************************************************************)
(* Further properties of the handlers.                                     *)
(***************************************************************************)
\* C17: a DELETE or MOVE request whose etag header is absent or holds no
\* version, and a MOVE request without destination header, is answered 400 as
\* it arrives, both tables staying as they are, whether the identity is live
\* or not; an answered request does nothing more.
C17_MissingHeaderIs400 ==
    [][/\ Len(reqs') = Len(reqs) + 1 =>
            LET r == reqs'[Len(reqs')]
            IN  (/\ r.method \in {"DELETE", "MOVE"}
                 /\ \/ r.etag \in {None} \cup BadEtags
                    \/ r.method = "MOVE" /\ r.destination = None)
                    => /\ r.pc = "done"
                       /\ r.response.status = 400
                       /\ Unchanged
       /\ \A i \in DOMAIN reqs : reqs[i].pc = "done" => reqs'[i] = reqs[i]
      ]_vars

\* On a live identity, a DELETE with an etag without quotes and a MOVE with a
\* good etag and no destination were both answered 400.
C17_Witness ==
    /\ <<"p", "a">> \in DOMAIN files
    /\ \E i, j \in DOMAIN reqs :
        /\ reqs[i].method = "DELETE" /\ reqs[i].etag = Some(<<"0">>)
        /\ reqs[i].pc = "done" /\ reqs[i].response.status = 400
        /\ reqs[j].method = "MOVE" /\ reqs[j].etag = Some(format_etag(0))
        /\ reqs[j].destination = None
        /\ reqs[j].pc = "done" /\ reqs[j].response.status = 400

\* The step in which GetFileHandler, holding the lock, handles request i.
GetHandles(i) ==
    /\ reqs[i].pc = "locked"
    /\ reqs[i].method \in {"GET", "HEAD"}
    /\ reqs'[i].pc # "locked"

\* C18: under every logging level, HEAD on a live identity is answered 200
\* with an empty body and the etag, last-modified and content-disposition
\* that GET on that identity gets; on an identity that is not live, 404.
C18_HeadAnswersLikeGet ==
    [][\A i \in DOMAIN reqs :
        (GetHandles(i) /\ reqs[i].method = "HEAD") =>
            LET id == Identity(i)
                of_get == GetResponse(get(Db(files, history), id[1], id[2], TRUE),
                                      id[2], TRUE)
            IN  /\ reqs'[i].pc = "done"
                /\ IF id \in DOMAIN files
                   THEN reqs'[i].response = [of_get EXCEPT !.body = ""]
                   ELSE reqs'[i].response.status = 404
      ]_vars

\* C19: no request makes its handler panic: every request that has left its
\* handler has an HTTP response.
C19_NoHandlerPanics ==
    \A i \in DOMAIN reqs : reqs[i].pc # "panic"

\* The rows a step adds to FILES_HISTORY.
NewRows == history' \ history

\* The identity whose current row a successful call leaves behind.
RowOf(call) == IF call.op = "move_to" THEN call.to ELSE call.id

\* C20: for every successful save, delete and move_to, the timestamp returned
\* to the caller is the instant the operation wrote into its history lines
\* and, for save and move_to, into the current row, and a get of the identity
\* made afterwards reports that instant.
C20_ReturnedTimestampIsPersisted ==
    [][(last'.ok /\ last'.op \in {"save", "delete", "move_to"} /\ NewRows # {}) =>
        /\ \A row \in NewRows : row.timestamp = to_rfc3339(last'.timestamp)
        /\ last'.op \in {"save", "move_to"} =>
            LET id == RowOf(last')
            IN  /\ files'[id].timestamp = to_rfc3339(last'.timestamp)
                /\ get(Db(files', history'), id[1], id[2], FALSE).timestamp
                       = last'.timestamp
      ]_vars

\* The step in which request i is answered with the given status.
Answered(i, status) ==
    /\ reqs[i].pc # "done"
    /\ reqs'[i].pc = "done"
    /\ reqs'[i].response.status = status

\* Both tables hold the same about every identity: a current row goes with
\* a last history line of its version and hash that leaves the identity live,
\* no current row with no history or a last line that leaves it not live.
TablesAgree(f, h) ==
    \A id \in IDs :
        LET rows == SQL_SELECT_HISTORY(Db(f, h), id[1], id[2])
        IN  IF id \in DOMAIN f
            THEN /\ rows # <<>>
                 /\ rows[Len(rows)].operation \in LiveOperations
                 /\ rows[Len(rows)].version = f[id].version
                 /\ rows[Len(rows)].hash = f[id].hash
            ELSE rows = <<>> \/ rows[Len(rows)].operation \in DeadOperations

\* C21: when a file request is answered 504, both tables are as before the
\* request's handler was dropped or hold the request's complete operation,
\* and they agree: no history line is left without its change of the current
\* row.
C21_TimeoutLeavesNoPartialEffect ==
    [][\A i \in DOMAIN reqs :
        Answered(i, 504) =>
            LET id == Identity(i)
                r  == save(Db(files, history), id[1], id[2], reqs[i].body,
                           reqs[i].version, PeerAddress, clock, 0)
            IN  /\ \/ files' = files /\ history' = history
                   \/ r.ok /\ files' = r.db.files /\ history' = r.db.history
                /\ TablesAgree(files', history')
      ]_vars

\* A PUT was answered 504 while another request changed the repository.
C21_Witness ==
    \E i, j \in DOMAIN reqs :
        /\ reqs[i].method = "PUT" /\ reqs[i].pc = "done"
        /\ reqs[i].response.status = 504
        /\ reqs[j].pc = "done" /\ reqs[j].response.status \in {201, 204}

\* The handlers of the router whose matcher gives the result to the request.
HandlersGiving(result, request) ==
    {k \in DOMAIN router.handlers : matches(router.handlers[k], request) = result}

\* C22: a request goes to the first registered handler whose matcher returns
\* OK, whatever earlier matchers returned; without such a handler the answer
\* is 405 when some matcher returned UriOnly and 404 otherwise.
C22_FirstOkHandlerOr405Or404 ==
    router.result # <<>> =>
        LET request == router.request[1]
            result  == router.result[1]
            oks     == HandlersGiving("OK", request)
        IN  IF oks # {}
            THEN result.handler \in oks /\ \A k \in oks : result.handler <= k
            ELSE /\ result.handler = 0
                 /\ result.status =
                        IF HandlersGiving("UriOnly", request) # {} THEN 405 ELSE 404

\* A request went to a handler registered after one whose matcher returned
\* UriOnly.
C22_Witness ==
    /\ router.result # <<>>
    /\ router.result[1].handler > 1
    /\ \E k \in HandlersGiving("UriOnly", router.request[1]) :
            k < router.result[1].handler

\* Request i of the server is in flight.
Running(i) == i \in DOMAIN server.conns /\ server.conns[i].pc = "running"

\* Request i of the server has its response.
Responded(i) == i \in DOMAIN server.conns /\ server.conns[i].pc = "responded"

\* C23: once SIGINT, SIGTERM or the exit channel has fired, serve accepts no
\* more connections, every request in flight then runs to its response, and
\* serve returns, no request being in flight any more; serve does not return
\* unless one of the three has fired.
C23_GracefulShutdown ==
    /\ [][server.phase # "listening" => Len(server'.conns) = Len(server.conns)]_vars
    /\ \A i \in 1 .. MaxConns :
            (server.phase = "draining" /\ Running(i))
                ~> Responded(i)
    /\ (server.phase = "draining") ~> (server.phase = "returned")
    /\ [](server.phase = "returned" =>
            /\ server.cause # None
            /\ \A i \in DOMAIN server.conns : ~Running(i))

\* A call on CacheDb of the given kind has just returned Ok.
CacheCallOk(op) == cache_last'.op = op /\ cache_last'.ok

\* C24: after save with Some((v, t)) the row is synced with v and t and holds
\* the content and its hash; after save with None it is not synced, its
\* version and timestamp are null, and it holds the content and its hash;
\* whether or not there was a row before, and whatever its state.
C24_SaveSetsSyncState ==
    [][CacheCallOk("save") =>
        LET call == cache_last'
            row  == cache'[call.id]
        IN  /\ call.id \in DOMAIN cache'
            /\ row.file = call.file
            /\ row.hash = digest(call.file)
            /\ IF call.sync # None
               THEN /\ row.is_synced = TRUE
                    /\ row.last_synced_version = Some(call.sync[1].last_synced_version)
                    /\ row.last_synced_timestamp
                            = to_rfc3339(call.sync[1].last_synced_timestamp)
               ELSE /\ row.is_synced = FALSE
                    /\ row.last_synced_version = None
                    /\ row.last_synced_timestamp = None
      ]_vars

\* C25: a row of the cache is synced if and only if its last synced version
\* and its last synced timestamp are both not null.
C25_SyncedIffSyncFields ==
    \A id \in DOMAIN cache :
        cache[id].is_synced <=>
            (cache[id].last_synced_version # None /\ cache[id].last_synced_timestamp # None)

\* C26: delete turns an existing row into a tombstone, synced with the given
\* version and timestamp or not synced without them, and leaves every other
\* row alone; on a missing row it fails with NotFound and changes nothing.
C26_DeleteLeavesTombstone ==
    [][cache_last'.op = "delete" /\ cache_last' # cache_last =>
        LET call == cache_last'
        IN  IF call.id \in DOMAIN cache
            THEN /\ call.ok
                 /\ DOMAIN cache' = DOMAIN cache
                 /\ \A id \in DOMAIN cache \ {call.id} : cache'[id] = cache[id]
                 /\ cache'[call.id].hash = Null
                 /\ cache'[call.id].file = Null
                 /\ IF call.sync # None
                    THEN /\ cache'[call.id].is_synced = TRUE
                         /\ cache'[call.id].last_synced_version
                                = Some(call.sync[1].last_synced_version)
                         /\ cache'[call.id].last_synced_timestamp
                                = to_rfc3339(call.sync[1].last_synced_timestamp)
                    ELSE cache'[call.id].is_synced = FALSE
            ELSE ~call.ok /\ call.err = "NotFound" /\ cache' = cache
      ]_vars

\* A synced row with content has been deleted without sync information, and
\* is a tombstone that is not synced.
C26_Witness ==
    /\ cache_last.op = "delete" /\ cache_last.ok /\ cache_last.sync = None
    /\ cache[cache_last.id].hash = Null
    /\ cache[cache_last.id].last_synced_version # None
    /\ \E id \in DOMAIN cache : cache[id].hash # Null

\* C27: get fails with NotFound exactly when there is no row; for every row,
\* a tombstone included, it returns the hash (null for a tombstone), the
\* content (absent for a tombstone) and the sync fields of the row.
C27_GetNotFoundIffNoRow ==
    [][cache_last'.op = "get" /\ cache_last' # cache_last =>
        LET call == cache_last'
        IN  IF call.id \notin DOMAIN cache
            THEN ~call.ok /\ call.err = "NotFound"
            ELSE LET row == cache[call.id]
                 IN  /\ call.ok
                     /\ call.result[1].hash = row.hash
                     /\ call.result[1].is_synced = row.is_synced
                     /\ call.result[1].file =
                            (IF row.file = Null THEN None ELSE Some(row.file))
                     /\ call.result[1].last_synced_version = row.last_synced_version
                     /\ call.result[1].last_synced_timestamp =
                            (IF row.last_synced_timestamp = None THEN None
                             ELSE Some(decode_timestamp(row.last_synced_timestamp)))
      ]_vars

\* The result of a comparison as the other side sees it.
Inverse(result) ==
    CASE result = "LocalIsMoreRecent"   -> "DistantIsMoreRecent"
      [] result = "DistantIsMoreRecent" -> "LocalIsMoreRecent"
      [] OTHER -> result

\* C28: comparing two logs in the other order gives the inverse result:
\* LocalIsMoreRecent and DistantIsMoreRecent exchanged, Equal and Diverge kept.
C28_CompareLogsIsAntisymmetric ==
    cmp.called => cmp.exchanged = Inverse(cmp.result)

\* The last events of the two logs compared, as compare_logs reads them.
last_local_event == get_last_event(cmp.local)

last_distant_event == get_last_event(cmp.distant)

\* Both logs have a last event.
BothHaveEvents == last_local_event.kind # "None" /\ last_distant_event.kind # "None"

\* The hashes of the hash-carrying entries of a log.
HashesIn(log) ==
    IF log = None THEN {}
    ELSE {log[1][k].hash : k \in {j \in DOMAIN log[1] : log[1][j].type \in HashEntryTypes}}

\* The two logs share a prefix of at least one entry, and each ends with one
\* more entry, an update whose hash the other log does not have.
SharedPrefixThenUnknownUpdates ==
    /\ cmp.local # None /\ cmp.distant # None
    /\ LET l == cmp.local[1]
           d == cmp.distant[1]
       IN  /\ Len(l) = Len(d) /\ Len(l) >= 2
           /\ SubSeq(l, 1, Len(l) - 1) = SubSeq(d, 1, Len(d) - 1)
           /\ l[Len(l)].type \in HashEntryTypes
           /\ d[Len(d)].type \in HashEntryTypes
           /\ l[Len(l)].hash \notin HashesIn(cmp.distant)
           /\ d[Len(d)].hash \notin HashesIn(cmp.local)

\* C29: when the last events carry different hashes, the result is
\* DistantIsMoreRecent if the local last hash is in a hash-carrying entry of
\* the distant log, else LocalIsMoreRecent if the distant last hash is in the
\* local log, else Diverge; two logs that share a prefix and each append an
\* update with a hash unknown to the other compare as Diverge.
C29_DifferentHashesFollowHistory ==
    cmp.called =>
        /\ (BothHaveEvents /\ last_local_event.hash # last_distant_event.hash) =>
               cmp.result =
                   IF last_local_event.hash \in HashesIn(cmp.distant)
                   THEN "DistantIsMoreRecent"
                   ELSE IF last_distant_event.hash \in HashesIn(cmp.local)
                   THEN "LocalIsMoreRecent"
                   ELSE "Diverge"
        /\ SharedPrefixThenUnknownUpdates => cmp.result = "Diverge"

\* Two logs with a common creation and two different modifications have been
\* compared, and diverge.
C29_Witness ==
    /\ cmp.called
    /\ SharedPrefixThenUnknownUpdates
    /\ cmp.local[1][1].type = "Creation"
    /\ cmp.local[1][2].type = "Modification"
    /\ cmp.distant[1][2].type = "Modification"
    /\ cmp.result = "Diverge"

\* The instant of an event as compare_logs weighs it: ten seconds later for a
\* Deletion, as written for an Update.
Adjusted(event) ==
    IF event.kind = "Deletion" THEN event.datetime + DeletionDelay ELSE event.datetime

\* The result that names the side of a deletion of a hash as ahead of an
\* update to it, unless the update is more than ten seconds later.
DeletionAgainstUpdate(deletion, update, deletion_side, update_side) ==
    IF update.datetime > deletion.datetime + DeletionDelay
    THEN update_side ELSE deletion_side

\* C30: when the last events carry the same hash and are not identical, the
\* side with the strictly greater adjusted instant is returned; a log ending
\* in a deletion of a hash beats a log ending in an update to it unless the
\* update is more than ten seconds later than the deletion.
C30_SameHashLaterAdjustedInstantWins ==
    (/\ cmp.called
     /\ BothHaveEvents
     /\ last_local_event.hash = last_distant_event.hash
     /\ last_local_event # last_distant_event) =>
        /\ Adjusted(last_local_event) > Adjusted(last_distant_event)
               => cmp.result = "LocalIsMoreRecent"
        /\ Adjusted(last_distant_event) > Adjusted(last_local_event)
               => cmp.result = "DistantIsMoreRecent"
        /\ (last_local_event.kind = "Deletion" /\ last_distant_event.kind = "Update")
               => cmp.result = DeletionAgainstUpdate(last_local_event, last_distant_event,
                                                     "LocalIsMoreRecent", "DistantIsMoreRecent")
        /\ (last_local_event.kind = "Update" /\ last_distant_event.kind = "Deletion")
               => cmp.result = DeletionAgainstUpdate(last_distant_event, last_local_event,
                                                     "DistantIsMoreRecent", "LocalIsMoreRecent")

\* The last event of a log as the comparison is meant to read it.
LastEventOf(log) ==
    IF log = None \/ log[1] = <<>> THEN [kind |-> "None"]
    ELSE LET entries == log[1]
             n == Len(entries)
             hashed == {k \in 1 .. n : entries[k].type \in {"Creation", "Modification", "MoveFrom"}}
         IN  IF n \in hashed
             THEN [kind |-> "Update", hash |-> entries[n].hash,
                   datetime |-> entries[n].timestamp]
             ELSE IF hashed = {} THEN [kind |-> "None"]
             ELSE [kind |-> "Deletion",
                   hash |-> entries[CHOOSE k \in hashed : \A j \in hashed : j <= k].hash,
                   datetime |-> entries[n].timestamp]

\* C31: the last event is None for an absent log, an empty log and a log
\* without a hash-carrying entry, Update(hash, timestamp) of a last entry that
\* is Creation, Modification or MoveFrom, and otherwise Deletion(hash of the
\* most recent hash-carrying entry, timestamp of the last entry); compare_logs
\* gives Equal for identical last events, DistantIsMoreRecent when only the
\* local one is None and LocalIsMoreRecent when only the distant one is None.
C31_LastEventAndNoneCases ==
    /\ get_last_event(cmp.local) = LastEventOf(cmp.local)
    /\ get_last_event(cmp.distant) = LastEventOf(cmp.distant)
    /\ cmp.called =>
        LET l == LastEventOf(cmp.local)
            d == LastEventOf(cmp.distant)
        IN  /\ l = d => cmp.result = "Equal"
            /\ (l.kind = "None" /\ d.kind # "None") => cmp.result = "DistantIsMoreRecent"
            /\ (l.kind # "None" /\ d.kind = "None") => cmp.result = "LocalIsMoreRecent"

\* A log that ends in a deletion after two updates with different hashes has
\* been compared with a log without an event: the local log is ahead, and
\* with the logs exchanged the distant one.
C31_Witness ==
    /\ cmp.called
    /\ cmp.local # None /\ Len(cmp.local[1]) = 3
    /\ cmp.local[1][1].hash # cmp.local[1][2].hash
    /\ cmp.local[1][2].type = "Modification"
    /\ cmp.local[1][3].type = "Deletion"
    /\ get_last_event(cmp.local) =
           [kind |-> "Deletion", hash |-> cmp.local[1][2].hash,
            datetime |-> cmp.local[1][3].timestamp]
    /\ cmp.distant = Some(<<>>)
    /\ cmp.result = "LocalIsMoreRecent"
    /\ cmp.exchanged = "DistantIsMoreRecent"

C33_ExtendedLogIsNeverBehind ==
    (/\ cmp.called
     /\ cmp.local # None /\ cmp.distant # None
     /\ Len(cmp.local[1]) < Len(cmp.distant[1])
     /\ SubSeq(cmp.distant[1], 1, Len(cmp.local[1])) = cmp.local[1]
     /\ \A k \in 1 .. Len(cmp.distant[1]) - 1 :
            cmp.distant[1][k].timestamp <= cmp.distant[1][k + 1].timestamp)
        => cmp.result \notin {"LocalIsMoreRecent", "Diverge"}

\* The MOVE_TO lines of an identity that name another one, and the MOVE_FROM
\* lines of an identity that name another one.
MoveToLines(from, to) ==
    {r \in Rows(from) : r.operation = "MOVE_TO" /\ r.old_or_new_path = path_join(to[1], to[2])}

MoveFromLines(to, from) ==
    {r \in Rows(to) : r.operation = "MOVE_FROM" /\ r.old_or_new_path = path_join(from[1], from[2])}

\* The line before a line in the history of its identity.
LineBefore(r) ==
    CHOOSE q \in Rows(<<r.path, r.name>>) : q.version = r.version - 1

\* The two lines were written by one move: at the same instant, the MOVE_FROM
\* line with the hash and the content the source held before the move.
SameMove(move_to_row, move_from_row) ==
    /\ move_from_row.timestamp = move_to_row.timestamp
    /\ move_from_row.hash = LineBefore(move_to_row).hash
    /\ move_from_row.file = LineBefore(move_to_row).file
    /\ move_from_row.hash # Null

\* C34: every MOVE_TO line of an identity A naming B has exactly one MOVE_FROM
\* line in the history of B naming A that the same move wrote, every MOVE_FROM
\* line has such a MOVE_TO line, and there are as many of the ones as of the
\* others.
C34_MoveLinesArePaired ==
    \A a \in IDs, b \in IDs :
        /\ Cardinality(MoveToLines(a, b)) = Cardinality(MoveFromLines(b, a))
        /\ \A r \in MoveToLines(a, b) :
               Cardinality({f \in MoveFromLines(b, a) : SameMove(r, f)}) = 1
        /\ \A f \in MoveFromLines(b, a) :
               Cardinality({r \in MoveToLines(a, b) : SameMove(r, f)}) = 1

\* One identity has been moved twice to the other, and once back.
C34_Witness ==
    \E a \in IDs, b \in IDs :
        /\ Cardinality(MoveToLines(a, b)) = 2
        /\ Cardinality(MoveFromLines(b, a)) = 2
        /\ Cardinality(MoveToLines(b, a)) = 1

\* The current row and the history of an identity are the same before and
\* after the step.
Untouched(id) ==
    /\ (id \in DOMAIN files') <=> (id \in DOMAIN files)
    /\ id \in DOMAIN files => files'[id] = files[id]
    /\ HistoryRows(Db(files', history'), id[1], id[2]) = Rows(id)

\* C35: save and delete on an identity leave the current row and the history
\* of every other identity as they were, and move_to leaves those of every
\* identity other than its source and its destination as they were.
C35_OtherIdentitiesUntouched ==
    [][/\ last'.op \in {"save", "delete"} =>
            \A id \in MoveIDs \ {last'.id} : Untouched(id)
       /\ last'.op = "move_to" =>
            \A id \in MoveIDs \ {last'.id, last'.to} : Untouched(id)
      ]_vars

\* A move between two identities has succeeded while a third one, live and
\* with a history, stayed as it was.
C35_Witness ==
    /\ last.op = "move_to" /\ last.ok
    /\ \E id \in MoveIDs \ {last.id, last.to} : Live(id) /\ Rows(id) # {}

\* The last line of the history of an identity.
LastLine(id) == CHOOSE r \in Rows(id) : \A q \in Rows(id) : q.version <= r.version

\* C36: for every live identity, the hash and the content of the current row
\* are the hash and the content of the last line of its history, a Creation,
\* an Update or a MoveFrom.
C36_CurrentRowIsLastLine ==
    \A id \in DOMAIN files :
        /\ Rows(id) # {}
        /\ LastLine(id).operation \in {"CREATION", "UPDATE", "MOVE_FROM"}
        /\ files[id].hash = LastLine(id).hash
        /\ files[id].file = LastLine(id).file

\* Two live identities with different contents: the last line of the one is
\* a MoveFrom, of the other a Creation.
C36_Witness ==
    \E id \in DOMAIN files, other \in DOMAIN files :
        /\ LastLine(id).operation = "MOVE_FROM"
        /\ LastLine(other).operation = "CREATION"
        /\ files[id].hash # files[other].hash
        /\ files[id].file # Null

\* C37: for every successful response of the handlers of /files/ (201 to PUT,
\* 204 to DELETE and MOVE, 200 to GET and HEAD), the sync information the
\* cache's client reads from the headers is present, with the version of the
\* etag and the instant of last-modified.
C37_SyncInformationOfSuccess ==
    [][\A i \in DOMAIN reqs :
        (\E status \in {200, 201, 204} : Answered(i, status)) =>
            LET response == reqs'[i].response
                sync == get_sync_information(response)
            IN  /\ sync # None
                /\ format_etag(sync[1].last_synced_version) = response.etag[1]
                /\ to_rfc2822(sync[1].last_synced_timestamp) = response.last_modified[1]
      ]_vars

\* The request has been answered, or its handler has panicked.
Over(request) == request.pc \in {"done", "panic"}

\* C38: the requests of the cache's client carry no etag; its delete and
\* move_to are answered 400; its save succeeds only on an identity that is not
\* live; whenever a request is rejected the client returns an error and both
\* tables stay as they were.
C38_ClientWithoutEtagIsRejected ==
    [][\A i \in DOMAIN reqs' :
        LET request == reqs'[i]
            ends == Over(request) /\ (i \in DOMAIN reqs => ~Over(reqs[i]))
            id == get_path_and_name_from_uri(request.uri)
        IN  /\ request.etag = None
            /\ request.method \in {"DELETE", "MOVE"} =>
                    /\ request.pc = "done" /\ request.response.status = 400
                    /\ FileClient_result(request) = "HandlerError(500)"
            /\ (ends /\ request.method = "PUT") =>
                    /\ FileClient_result(request) = "Ok" => ~Live(id)
                    /\ FileClient_result(request) = "Ok" <=>
                            (request.pc = "done" /\ request.response.status = 201)
            /\ (ends /\ request.method \in {"PUT", "DELETE", "MOVE"}
                     /\ FileClient_result(request) # "Ok") =>
                    /\ files' = files /\ history' = history
      ]_vars

\* The client has saved to an identity that was not live, and its save to
\* the identity, live since, has been rejected with 412; elsewhere its delete
\* of a live identity has been rejected with 400.
C38_Witness ==
    /\ Len(reqs) = 2
    /\ reqs[2].method = "DELETE" /\ reqs[2].pc = "done"
    /\ reqs[2].response.status = 400
    /\ Live(get_path_and_name_from_uri(reqs[2].uri))
    /\ reqs[1].method = "PUT" /\ reqs[1].pc = "done"
    /\ reqs[1].response.status = 201

ComparisonResults == {"Equal", "LocalIsMoreRecent", "DistantIsMoreRecent", "Diverge"}

\* C39: compare_logs returns one of its four results, and does not panic, for
\* every pair of an absent log, an empty log or any sequence of entries:
\* explode_event and the unwraps of the logs are reached with last events
\* that are not None only.
C39_CompareLogsNeverPanics ==
    cmp.called =>
        /\ cmp.result \in ComparisonResults
        /\ cmp.exchanged \in ComparisonResults

\* A log of entries without any hash, which has no last event, has been
\* compared both ways with a log whose last event is a deletion.
C39_Witness ==
    /\ cmp.called
    /\ cmp.local # None /\ cmp.local[1] # <<>>
    /\ get_last_event(cmp.local).kind = "None"
    /\ get_last_event(cmp.distant).kind = "Deletion"
    /\ cmp.result = "DistantIsMoreRecent"
    /\ cmp.exchanged = "LocalIsMoreRecent"

\* Request i of the server, a GET /exit that reaches the ExitHandler, ends
\* in this step.
ExitEnds(i) ==
    /\ Running(i)
    /\ server.conns[i].kind = "exit"
    /\ server.exit_handler
    /\ server'.conns[i].pc # "running"

\* No GET /exit has been handled before request i.
FirstExit(i) ==
    \A j \in DOMAIN server.conns :
        (j # i /\ server.conns[j].kind = "exit") => Running(j)

\* C40: the /exit handler fires the exit channel at most once: the first
\* /exit request is answered 204 and triggers the shutdown, every later one
\* is answered 500 and sends nothing; the handler is registered only when
\* the caller of serve gave no exit channel.
C40_ExitFiresOnce ==
    /\ [][\A i \in 1 .. MaxConns :
            ExitEnds(i) =>
                /\ server'.conns[i].pc = "responded"
                /\ IF FirstExit(i)
                   THEN server'.conns[i].status = 204 /\ server'.sender = "sent"
                   ELSE server'.conns[i].status = 500 /\ server'.sender = server.sender]_vars
    /\ [][server.sender = "sent" => server'.sender = "sent"]_vars
    /\ (server.exit_handler /\ server.sender = "sent") ~> (server.phase # "listening")
    /\ [](server.exit_handler <=> server.exit_channel = None)

====
